---- MODULE Spec2Model ----
(***************************************************************************)
(* A model of the cycle-synchronised core of rustboy-core: the interrupt   *)
(* controller, the DMA controller, the speed controller, the CPU's         *)
(* micro-op scheduler, the timer and the LCD controller's dot clock.       *)
(* Each component's state is a record with the fields of its struct; each  *)
(* handler is an operator from the state before to the state after, and    *)
(* the actions apply the handlers.  Register writes made by the running    *)
(* program take their values from small sets of bytes.                     *)
(***************************************************************************)
EXTENDS Integers, Sequences, FiniteSets, TLC

VARIABLES
  ic,          \* InterruptControllerImpl
  cpu,         \* CPUImpl: enabled, stopped, instructions, registers, context
  mem,         \* bytes stored in WRAM and in the high-RAM stack area
  key1,        \* SpeedControllerImpl
  dma,         \* DMAControllerImpl
  timer,       \* TimerControllerImpl
  lcd,         \* LCDControllerImpl
  buttons,     \* ButtonControllerImpl
  oam,         \* OAMImpl: the y byte of each of the 40 objects
  audio,       \* AudioControllerImpl
  rom,         \* MBC3: the cartridge's registers, RAM and the two clocks
  panicked,    \* the emulator has terminated in a panic
  requested,   \* history: the request_interrupt calls made by the last step
  cpu_obs,     \* history: what the last CPU tick did
  dma_obs,     \* history: what the last DMA tick saw and did
  timer_obs,   \* history: ticks and TIMA increments since the divider reset
  lcd_obs,     \* history: what the last PPU tick did and the current frame's counts
  button_obs,  \* history: the buttons held, the group selection and the operations so far
  audio_obs,   \* history: what the last APU tick saw and told the audio driver
  rom_obs,     \* history: the cartridge before the last operation and the last latch write
  last_op      \* history: the name of the last operation

vars == <<ic, cpu, mem, key1, dma, timer, lcd, buttons, oam, audio, rom, panicked,
          requested, cpu_obs, dma_obs, timer_obs, lcd_obs, button_obs, audio_obs, rom_obs,
          last_op>>

\* The components that the CPU, DMA, timer and PPU steps leave alone
peripherals == <<buttons, button_obs, oam, audio, audio_obs, rom, rom_obs>>

(***************************************************************************)
(* Bit operations on bytes and words (util/bit_util.rs).                   *)
(***************************************************************************)
Pow2(n) == 2 ^ n

get_bit(v, b) == (v \div Pow2(b)) % 2 = 1

set_bit(v, b) == IF get_bit(v, b) THEN v ELSE v + Pow2(b)

reset_bit(v, b) == IF get_bit(v, b) THEN v - Pow2(b) ELSE v

toggle_bit(v, b) == IF get_bit(v, b) THEN v - Pow2(b) ELSE v + Pow2(b)

RECURSIVE BitAnd(_, _)
BitAnd(a, b) ==
  IF a = 0 \/ b = 0 THEN 0
  ELSE 2 * BitAnd(a \div 2, b \div 2) + (IF a % 2 = 1 /\ b % 2 = 1 THEN 1 ELSE 0)

RECURSIVE BitOr(_, _)
BitOr(a, b) ==
  IF a = 0 THEN b
  ELSE IF b = 0 THEN a
  ELSE 2 * BitOr(a \div 2, b \div 2) + (IF a % 2 = 1 \/ b % 2 = 1 THEN 1 ELSE 0)

get_upper_byte(w) == (w \div 256) % 256

get_lower_byte(w) == w % 256

\* u8::trailing_zeros, applied to a non-zero byte
RECURSIVE trailing_zeros(_)
trailing_zeros(v) == IF v % 2 = 1 THEN 0 ELSE 1 + trailing_zeros(v \div 2)

wrapping_add16(w, n) == (w + n) % 65536

wrapping_sub16(w, n) == (w + 65536 - n) % 65536

(***************************************************************************)
(* Interrupt sources (internal/cpu/interrupts.rs).                         *)
(***************************************************************************)
Interrupts == {"VerticalBlank", "Stat", "TimerOverflow", "SerialIOComplete", "ButtonPressed"}

NoInterrupt == "None"

interrupt_get_bit(i) ==
  CASE i = "VerticalBlank" -> 0
    [] i = "Stat" -> 1
    [] i = "TimerOverflow" -> 2
    [] i = "SerialIOComplete" -> 3
    [] i = "ButtonPressed" -> 4

get_routine_address(i) ==
  CASE i = "VerticalBlank" -> 64
    [] i = "Stat" -> 72
    [] i = "TimerOverflow" -> 80
    [] i = "SerialIOComplete" -> 88
    [] i = "ButtonPressed" -> 96

from_bit(b) ==
  CASE b = 0 -> "VerticalBlank"
    [] b = 1 -> "Stat"
    [] b = 2 -> "TimerOverflow"
    [] b = 3 -> "SerialIOComplete"
    [] b = 4 -> "ButtonPressed"
    [] OTHER -> NoInterrupt

LCDModes == {"HBlank", "VBlank", "Mode2", "Mode3"}

(***************************************************************************)
(* The state after Emulator::new.                                          *)
(***************************************************************************)
InterruptControllerImpl_new ==
  [interrupt_request |-> 225, interrupt_enable |-> 0, interrupt_master_enable |-> FALSE]

\* CPUImpl::new followed by CPUImpl::init; registers as in Registers::new
CPUImpl_new ==
  [enabled |-> TRUE, stopped |-> FALSE, instructions |-> <<>>,
   pc |-> 256, sp |-> 0, a |-> 17, f |-> 128, hl |-> 0, address_buffer |-> 0,
   word_buffer |-> 0]

ButtonRegister_new(button_type) ==
  [deferred_interrupt |-> FALSE,
   button_enabled_bit |-> IF button_type = "DIRECTION" THEN 4 ELSE 5,
   buttons_pressed_flags |-> 0,
   buttons_enabled |-> FALSE]

ButtonControllerImpl_new ==
  [action_buttons_register |-> ButtonRegister_new("ACTION"),
   direction_buttons_register |-> ButtonRegister_new("DIRECTION")]

\* No button held, P1 not written (both groups deselected), no operation yet
NoButtonObs ==
  [held |-> {}, p1 |-> 48, armed |-> FALSE, was_armed |-> FALSE, held_before |-> {},
   log |-> <<>>,
   requests |-> 0, before |-> ButtonControllerImpl_new]

DMATransfer_inactive ==
  [transfer_type |-> "Inactive", source_address |-> 0, destination_address |-> 0,
   bytes_transferred |-> 0, bytes_to_transfer |-> 0]

DMAControllerImpl_new ==
  [dma |-> 0, high_source_address |-> 0, low_source_address |-> 0,
   high_destination_address |-> 0, low_destination_address |-> 0,
   hdma5 |-> 255, active_transfer |-> DMATransfer_inactive,
   cancel_requested |-> FALSE, double_speed_toggle |-> FALSE]

\* TimerControllerImpl::new followed by the write of 0xF8 to TAC in Emulator::new
TimerControllerImpl_new ==
  [clock_pulse_bit |-> 10, divider |-> 0, timer_modulo |-> 0,
   timer_controller |-> 248, timer_counter |-> 0, enabled |-> FALSE]

LCDControllerImpl_new ==
  [current_object_index |-> 0, intersecting_object_references |-> <<>>,
   dot |-> 0, line |-> 0, column |-> 0, mode |-> "Mode2", lcdc |-> 145, stat |-> 2,
   interrupt_line |-> FALSE, line_rendered |-> FALSE, lyc |-> 0]

\* OAMImpl::new: 160 zero bytes, of which byte 4 * i is the y of object i
OAMImpl_new == [i \in 0..39 |-> 0]

\* GainControllerSettings::new
GainControllerSettings_new == [initial_value |-> 0, pace |-> 0, ascending |-> FALSE]

\* GainController::new
GainController_new ==
  [current_tick |-> 0, current_value |-> 0, current_settings |-> GainControllerSettings_new,
   new_settings |-> GainControllerSettings_new, active |-> FALSE]

\* LengthTimer::new
LengthTimer_new(max_value) ==
  [current_value |-> 0, max_value |-> max_value, current_settings |-> [initial_value |-> 0],
   new_settings |-> [initial_value |-> 0], enabled |-> FALSE, counting |-> FALSE]

\* PulsePlayerSettings::new; the duty cycle is kept as its two register bits
PulsePlayerSettings_new ==
  [initial_wavelength |-> 0, shift |-> 0, pace |-> 0, decrease |-> FALSE, duty_cycle |-> 0]

\* PulsePlayer::new
PulsePlayer_new ==
  [triggered |-> FALSE, current_tick |-> 0, wavelength |-> 0,
   current_settings |-> PulsePlayerSettings_new, new_settings |-> PulsePlayerSettings_new,
   playing |-> FALSE]

\* CustomWavePlayer::new, without the waveform bytes
CustomWavePlayer_new ==
  [triggered |-> FALSE, frequency_changed |-> TRUE, gain_changed |-> TRUE,
   dac_enabled_changed |-> TRUE, wavelength |-> 0, gain |-> 0, playing |-> FALSE,
   dac_enabled |-> FALSE]

\* NoisePlayer::new
NoisePlayer_new ==
  [clock_shift |-> 0, short |-> FALSE, clock_divider |-> 0, triggered |-> FALSE,
   playing |-> FALSE]

\* AudioControllerImpl::new, without the waveform RAM; the per-channel
\* components are indexed by the channel number
AudioControllerImpl_new ==
  [enabled |-> FALSE, disabled_request |-> FALSE, previous_timer_div |-> 0, div_apu |-> 0,
   length_timer |-> [ch \in 1..4 |-> LengthTimer_new(IF ch = 3 THEN 256 ELSE 64)],
   gain_controller |-> [ch \in {1, 2, 4} |-> GainController_new],
   pulse_player |-> [ch \in {1, 2} |-> PulsePlayer_new],
   ch3_custom_wave_player |-> CustomWavePlayer_new,
   ch4_noise_player |-> NoisePlayer_new,
   master_volume |-> 0, mixing_control |-> 0, mixing_control_changed |-> TRUE]

\* Nothing written, no APU tick yet; every channel is untriggered
NoAudioObs ==
  [ticks |-> 0, written |-> FALSE, write |-> <<>>, commands |-> <<>>, steps |-> {},
   advanced |-> FALSE, enabled |-> FALSE, was_enabled |-> FALSE, disable_pending |-> FALSE,
   double_speed |-> FALSE, div |-> 0, previous_div |-> 0,
   silenced |-> {}, silenced_before |-> {}, switched_on |-> FALSE]

\* A FormattedRTC of zeros, which is also what the empty cache holds here
FormattedRTC_zero ==
  [nanoseconds |-> 0, seconds |-> 0, minutes |-> 0, hours |-> 0, days_low |-> 0,
   days_high |-> 0]

\* RTC::new.  The u64 nanoseconds are kept as whole seconds and the
\* nanoseconds of the running second; formatted_rtc is None when cached is FALSE
RTC_new ==
  [seconds |-> 0, nanoseconds |-> 0, days_carry |-> FALSE, halted |-> FALSE,
   cached |-> FALSE, formatted_rtc |-> FormattedRTC_zero]

\* MBC3::new, without the ROM; ram holds the bytes written, by address in RAM
MBC3_new ==
  [rtc |-> RTC_new, rtc_registers |-> RTC_new, clock_counter_data_latch |-> FALSE,
   ram_enabled |-> FALSE, rom_bank_address |-> 1, ram_bank_address |-> 0, ram |-> <<>>]

\* No cartridge operation yet; no write to 0x6000..=0x7FFF yet
NoRomObs ==
  [ops |-> 0, before |-> MBC3_new, address |-> 0, value |-> 0, previous_bit |-> 0,
   last_bit |-> 0, latches |-> 0, written |-> [bank \in 8..12 |-> -1], seconds_run |-> 0]

\* The history variables before any tick
NoCpuObs ==
  [event |-> "none", queue_was_empty |-> TRUE, decoded_cb |-> FALSE, deferred |-> FALSE,
   opcode |-> -1, count |-> 0, servicing |-> NoInterrupt, p |-> 0, s |-> 0, if0 |-> -1,
   requested_meanwhile |-> {}, completed |-> FALSE, before |-> <<>>, speed |-> <<>>,
   cycles |-> 0, accesses |-> <<>>, start_pc |-> 0, was_enabled |-> TRUE]

NoDmaObs == [transfer_type |-> "Inactive", mode |-> "Mode2", cpu_enabled |-> TRUE,
             double_speed |-> FALSE, skipped |-> FALSE, cancel_requested |-> FALSE,
             cancel_written |-> FALSE, writes |-> 0,
             copy |-> <<>>, ticks_since_dma_write |-> -1]

NoTimerObs == [ticks |-> 0, valid |-> TRUE, incremented |-> FALSE, was_enabled |-> FALSE,
               bit |-> 10, old_div |-> 0, old_tima |-> 0]

NoLcdObs == [off_ticks |-> 0, switches |-> 0, was_enabled |-> TRUE,
             line_before |-> FALSE, line_after |-> FALSE, mode_before |-> "Mode2",
             ly_before |-> 0, flushes |-> 0, draws |-> 0, frame_vblank |-> 0, frame_flush |-> 0,
             frame_ended |-> FALSE, ended_vblank |-> 0, ended_flush |-> 0,
             before |-> LCDControllerImpl_new, double_speed |-> FALSE]

Init ==
  /\ ic = InterruptControllerImpl_new
  /\ cpu = CPUImpl_new
  /\ mem = <<>>
  /\ key1 = 0
  /\ dma = DMAControllerImpl_new
  /\ timer = TimerControllerImpl_new
  /\ lcd = LCDControllerImpl_new
  /\ buttons = ButtonControllerImpl_new
  /\ oam = OAMImpl_new
  /\ audio = AudioControllerImpl_new
  /\ rom = MBC3_new
  /\ panicked = FALSE
  /\ requested = <<>>
  /\ cpu_obs = NoCpuObs
  /\ dma_obs = NoDmaObs
  /\ timer_obs = NoTimerObs
  /\ lcd_obs = NoLcdObs
  /\ button_obs = NoButtonObs
  /\ audio_obs = NoAudioObs
  /\ rom_obs = NoRomObs
  /\ last_op = "new"

(***************************************************************************)
(* InterruptControllerImpl (internal/cpu/interrupts.rs).                   *)
(***************************************************************************)
IntByteSamples == {0, 1, 2, 4, 8, 16, 10, 20, 31, 224, 255}

\* get_requested_interrupt with the IE mask left out
get_requested_interrupt_unmasked(c) ==
  IF ~c.interrupt_master_enable THEN NoInterrupt
  ELSE LET masked_request == BitAnd(31, c.interrupt_request)
       IN  IF masked_request = 0 THEN NoInterrupt
           ELSE from_bit(trailing_zeros(masked_request))

get_requested_interrupt(c) ==
  IF ~c.interrupt_master_enable THEN NoInterrupt
  ELSE LET masked_request == BitAnd(BitAnd(31, c.interrupt_enable), c.interrupt_request)
       IN  IF masked_request = 0 THEN NoInterrupt
           ELSE from_bit(trailing_zeros(masked_request))

request_interrupt(c, i) ==
  [c EXCEPT !.interrupt_request = set_bit(c.interrupt_request, interrupt_get_bit(i))]

clear_interrupt(c, i) ==
  [c EXCEPT !.interrupt_request = reset_bit(c.interrupt_request, interrupt_get_bit(i))]

\* Memory::read of IF, IE, IME and the RI backdoor (0xFEA1)
ic_read(c, address) ==
  CASE address = 65295 -> BitOr(224, c.interrupt_request)
    [] address = 65535 -> c.interrupt_enable
    [] address = 65184 -> IF c.interrupt_master_enable THEN 1 ELSE 0
    [] address = 65185 ->
         LET r == get_requested_interrupt(c)
         IN  IF r = NoInterrupt THEN 255 ELSE interrupt_get_bit(r)

\* Memory::write of IF, IE and the IME backdoor (0xFEA0)
ic_write(c, address, value) ==
  CASE address = 65295 -> [c EXCEPT !.interrupt_request = value]
    [] address = 65535 -> [c EXCEPT !.interrupt_enable = value]
    [] address = 65184 -> [c EXCEPT !.interrupt_master_enable = (value # 0)]

\* request_interrupt calls in order, as the ticking components make them
RECURSIVE request_all(_, _)
request_all(c, is) ==
  IF is = <<>> THEN c ELSE request_all(request_interrupt(c, Head(is)), Tail(is))

IntStep(c, op, reqs) ==
  /\ ic' = c
  /\ requested' = reqs
  /\ last_op' = op
  /\ UNCHANGED peripherals
  /\ UNCHANGED <<cpu, mem, key1, dma, timer, lcd, panicked, cpu_obs, dma_obs,
                 timer_obs, lcd_obs>>

RequestInterrupt(i) == IntStep(request_interrupt(ic, i), "request_interrupt", <<i>>)

ClearInterrupt(i) == IntStep(clear_interrupt(ic, i), "clear_interrupt", <<>>)

EnableInterrupts ==
  IntStep([ic EXCEPT !.interrupt_master_enable = TRUE], "enable_interrupts", <<>>)

DisableInterrupts ==
  IntStep([ic EXCEPT !.interrupt_master_enable = FALSE], "disable_interrupts", <<>>)

WriteIF(value) == IntStep(ic_write(ic, 65295, value), "write_if", <<>>)

WriteIE(value) == IntStep(ic_write(ic, 65535, value), "write_ie", <<>>)

WriteIME(value) == IntStep(ic_write(ic, 65184, value), "write_ime", <<>>)

NextInt ==
  \/ \E i \in Interrupts : RequestInterrupt(i)
  \/ \E i \in Interrupts : ClearInterrupt(i)
  \/ EnableInterrupts
  \/ DisableInterrupts
  \/ \E v \in IntByteSamples : WriteIF(v)
  \/ \E v \in IntByteSamples : WriteIE(v)
  \/ \E v \in {0, 1} : WriteIME(v)

SpecInt == Init /\ [][NextInt]_vars

\* The interrupt the CPU decodes from its read of the RI backdoor (cpu.rs:54)
CpuSeesInterrupt == from_bit(ic_read(ic, 65185))

\* The bit numbers set in IE & IF & 0x1F
PendingBits ==
  {b \in 0..4 : get_bit(ic.interrupt_enable, b) /\ get_bit(ic.interrupt_request, b)}

\* C5: the requested interrupt reported to the CPU is the source with the
\* lowest bit number set in IE & IF & 0x1F when IME is set and that value is
\* non-zero, and none otherwise.
C5_RequestedIsLowestPendingBit ==
  IF ic.interrupt_master_enable /\ PendingBits # {}
  THEN /\ CpuSeesInterrupt \in Interrupts
       /\ interrupt_get_bit(CpuSeesInterrupt) \in PendingBits
       /\ \A b \in PendingBits : interrupt_get_bit(CpuSeesInterrupt) <= b
  ELSE CpuSeesInterrupt = NoInterrupt

\* C5 witness: IME set, two sources pending after a request, and a
\* lower-numbered requested source masked out by IE
C5_Witness ==
  /\ ic.interrupt_master_enable
  /\ Cardinality(PendingBits) >= 2
  /\ \E b \in 0..4 : /\ get_bit(ic.interrupt_request, b)
                     /\ ~get_bit(ic.interrupt_enable, b)
                     /\ \A c \in PendingBits : b < c
  /\ last_op = "request_interrupt"

(***************************************************************************)
(* SpeedControllerImpl (controllers/speed.rs).                             *)
(***************************************************************************)
double_speed(k) == get_bit(k, 7)

\* SpeedControllerImpl::tick: the pair of the register and the CPU after it
speed_tick(k, c) ==
  IF c.stopped /\ get_bit(k, 0)
  THEN [key1 |-> reset_bit(toggle_bit(k, 7), 0), cpu |-> [c EXCEPT !.stopped = FALSE]]
  ELSE [key1 |-> k, cpu |-> c]

\* Memory::write storing the whole value in KEY1
speed_write_whole(k, value) == value

\* Memory::write of KEY1
speed_write(k, value) == IF get_bit(value, 0) THEN set_bit(k, 0) ELSE reset_bit(k, 0)

(***************************************************************************)
(* DMAControllerImpl (internal/controllers/dma.rs) with the addresses the  *)
(* DMA bus routes (memory/dma_bus.rs).                                     *)
(***************************************************************************)
MaxLines == 2

HDMA5Samples == {v \in 0..255 : (v % 128) < MaxLines}

HDMA3Samples == {1}

DMASamples == {192}

LegacyLength == 160

DmaModeSamples == {"HBlank", "Mode3"}

dma_bus_can_read(address) == address >= 0 /\ address <= 57343

dma_bus_can_write(address) ==
  \/ (address >= 32768 /\ address <= 40959)
  \/ (address >= 65024 /\ address <= 65183)

\* Toggle::inspect_and_toggle: the value before, and the toggle after
inspect_and_toggle(t) == [result |-> t, toggle |-> ~t]

DmaResult(d, en, copy, pan) == [dma |-> d, cpu_enabled |-> en, copy |-> copy, panicked |-> pan]

\* handle_legacy_transfer completing one byte late
handle_legacy_transfer_one_more(d, en) ==
  LET t == d.active_transfer
      source == t.source_address + t.bytes_transferred
      destination == 65024 + t.bytes_transferred
      bytes_transferred == t.bytes_transferred + 1
  IN  IF ~dma_bus_can_read(source) \/ ~dma_bus_can_write(destination)
      THEN DmaResult(d, en, <<>>, TRUE)
      ELSE DmaResult(
             [d EXCEPT !.active_transfer.bytes_transferred = bytes_transferred,
                       !.active_transfer.transfer_type =
                          IF bytes_transferred = LegacyLength + 1 THEN "Inactive" ELSE "Legacy"],
             en, <<source, destination>>, FALSE)

handle_legacy_transfer(d, en) ==
  LET t == d.active_transfer
      source == t.source_address + t.bytes_transferred
      destination == 65024 + t.bytes_transferred
      bytes_transferred == t.bytes_transferred + 1
  IN  IF ~dma_bus_can_read(source) \/ ~dma_bus_can_write(destination)
      THEN DmaResult(d, en, <<>>, TRUE)
      ELSE DmaResult(
             [d EXCEPT !.active_transfer.bytes_transferred = bytes_transferred,
                       !.active_transfer.transfer_type =
                          IF bytes_transferred = LegacyLength THEN "Inactive" ELSE "Legacy"],
             en, <<source, destination>>, FALSE)

\* The double-speed halving shared by the general-purpose and H-Blank handlers:
\* TRUE when this tick returns at once
dma_tick_skipped(d, ds) == ds /\ inspect_and_toggle(d.double_speed_toggle).result

dma_after_toggle(d, ds) ==
  IF ds THEN [d EXCEPT !.double_speed_toggle = inspect_and_toggle(d.double_speed_toggle).toggle]
  ELSE d

handle_general_purpose_transfer(d0, en, ds) ==
  IF dma_tick_skipped(d0, ds) THEN DmaResult(dma_after_toggle(d0, ds), en, <<>>, FALSE)
  ELSE
    LET d == dma_after_toggle(d0, ds)
        t == d.active_transfer
        source == t.source_address + t.bytes_transferred
        destination == t.destination_address + t.bytes_transferred
        bytes_transferred == t.bytes_transferred + 1
    IN  IF ~dma_bus_can_read(source) \/ ~dma_bus_can_write(destination)
        THEN DmaResult(d, FALSE, <<>>, TRUE)
        ELSE IF bytes_transferred = t.bytes_to_transfer
        THEN DmaResult(
               [d EXCEPT !.active_transfer.bytes_transferred = bytes_transferred,
                         !.active_transfer.transfer_type = "Inactive",
                         !.hdma5 = 255],
               TRUE, <<source, destination>>, FALSE)
        ELSE DmaResult(
               [d EXCEPT !.active_transfer.bytes_transferred = bytes_transferred],
               FALSE, <<source, destination>>, FALSE)

should_cancel_ignoring_cpu(d, en) == d.cancel_requested

should_cancel_hblank_transfer(d, en) == en /\ d.cancel_requested

cancel_hblank_transfer(d) ==
  [d EXCEPT !.cancel_requested = FALSE,
            !.active_transfer.transfer_type = "Inactive",
            !.hdma5 = set_bit(d.hdma5, 7)]

handle_hblank_transfer(d0, en, lcd_mode, ds) ==
  IF dma_tick_skipped(d0, ds) THEN DmaResult(dma_after_toggle(d0, ds), en, <<>>, FALSE)
  ELSE
    LET d == dma_after_toggle(d0, ds)
        t == d.active_transfer
        source == t.source_address + t.bytes_transferred
        destination == t.destination_address + t.bytes_transferred
        bytes_transferred == t.bytes_transferred + 1
        lines_to_transfer == t.bytes_to_transfer \div 16
        lines_transferred == bytes_transferred \div 16
        lines_remaining == lines_to_transfer - lines_transferred
    IN  IF lcd_mode = "HBlank"
        THEN IF should_cancel_hblank_transfer(d, en)
             THEN DmaResult(cancel_hblank_transfer(d), en, <<>>, FALSE)
             ELSE IF ~dma_bus_can_read(source) \/ ~dma_bus_can_write(destination)
             THEN DmaResult(d, FALSE, <<>>, TRUE)
             ELSE IF bytes_transferred = t.bytes_to_transfer
             THEN DmaResult(
                    [d EXCEPT !.active_transfer.bytes_transferred = bytes_transferred,
                              !.active_transfer.transfer_type = "Inactive",
                              !.cancel_requested = FALSE,
                              !.hdma5 = 255],
                    TRUE, <<source, destination>>, FALSE)
             ELSE DmaResult(
                    [d EXCEPT !.active_transfer.bytes_transferred = bytes_transferred,
                              !.hdma5 = (lines_remaining - 1) % 256],
                    FALSE, <<source, destination>>, FALSE)
        ELSE DmaResult(d, TRUE, <<>>, FALSE)

\* DMAController::tick leaving the CPU as it is when no transfer is active
dma_tick_inactive_idle(d, en, lcd_mode, ds) ==
  CASE d.active_transfer.transfer_type = "Inactive" -> DmaResult(d, en, <<>>, FALSE)
    [] d.active_transfer.transfer_type = "Legacy" -> handle_legacy_transfer(d, en)
    [] d.active_transfer.transfer_type = "GeneralPurpose" ->
         handle_general_purpose_transfer(d, en, ds)
    [] d.active_transfer.transfer_type = "HBlank" ->
         handle_hblank_transfer(d, en, lcd_mode, ds)

\* DMAController::tick
dma_tick(d, en, lcd_mode, ds) ==
  CASE d.active_transfer.transfer_type = "Inactive" -> DmaResult(d, TRUE, <<>>, FALSE)
    [] d.active_transfer.transfer_type = "Legacy" -> handle_legacy_transfer(d, en)
    [] d.active_transfer.transfer_type = "GeneralPurpose" ->
         handle_general_purpose_transfer(d, en, ds)
    [] d.active_transfer.transfer_type = "HBlank" ->
         handle_hblank_transfer(d, en, lcd_mode, ds)

\* Memory::write of FF46 and FF51..FF55
dma_write(d, address, value) ==
  CASE address = 65350 ->
         [d EXCEPT !.dma = value,
                   !.active_transfer =
                      [transfer_type |-> "Legacy", source_address |-> value * 256,
                       destination_address |-> 0, bytes_transferred |-> 0,
                       bytes_to_transfer |-> 0]]
    [] address = 65361 -> [d EXCEPT !.high_source_address = value]
    [] address = 65362 -> [d EXCEPT !.low_source_address = BitAnd(value, 240)]
    [] address = 65363 -> [d EXCEPT !.high_destination_address = BitOr(BitAnd(value, 31), 128)]
    [] address = 65364 -> [d EXCEPT !.low_destination_address = BitAnd(value, 240)]
    [] address = 65365 ->
         IF d.active_transfer.transfer_type = "Inactive"
         THEN [d EXCEPT !.active_transfer =
                          [transfer_type |-> IF get_bit(value, 7) THEN "HBlank"
                                             ELSE "GeneralPurpose",
                           source_address |-> d.high_source_address * 256 + d.low_source_address,
                           destination_address |->
                              d.high_destination_address * 256 + d.low_destination_address,
                           bytes_transferred |-> 0,
                           bytes_to_transfer |-> (BitAnd(value, 127) + 1) * 16],
                        !.hdma5 = 0]
         ELSE IF d.active_transfer.transfer_type = "HBlank" /\ ~get_bit(value, 7)
         THEN [d EXCEPT !.cancel_requested = TRUE]
         ELSE d

\* Memory::read of FF55
dma_read_hdma5(d) == d.hdma5

\* The running program executes instructions, and so writes registers, while
\* the CPU is not stopped; a disabled CPU still completes the micro-ops of
\* the instruction in flight (cpu.rs:51), which may contain the write.
ProgramRuns == ~panicked /\ ~cpu.stopped

DmaWrite(address, value, op) ==
  /\ ProgramRuns
  /\ dma' = dma_write(dma, address, value)
  /\ last_op' = op
  /\ UNCHANGED peripherals
  /\ requested' = <<>>
  /\ UNCHANGED <<ic, cpu, mem, key1, timer, lcd, panicked, cpu_obs, dma_obs,
                 timer_obs, lcd_obs>>

\* A write to FF46; the history starts counting the DMA ticks that follow it
WriteDMA(value) ==
  /\ ProgramRuns
  /\ dma' = dma_write(dma, 65350, value)
  /\ dma_obs' = [dma_obs EXCEPT !.ticks_since_dma_write = 0]
  /\ last_op' = "write_dma"
  /\ UNCHANGED peripherals
  /\ requested' = <<>>
  /\ UNCHANGED <<ic, cpu, mem, key1, timer, lcd, panicked, cpu_obs, timer_obs, lcd_obs>>

WriteHDMA3(value) == DmaWrite(65363, value, "write_hdma3")

WriteHDMA5(value) == DmaWrite(65365, value, "write_hdma5")

WriteKEY1(value) ==
  /\ ProgramRuns
  /\ key1' = speed_write(key1, value)
  /\ last_op' = "write_key1"
  /\ UNCHANGED peripherals
  /\ requested' = <<>>
  /\ UNCHANGED <<ic, cpu, mem, dma, timer, lcd, panicked, cpu_obs, dma_obs,
                 timer_obs, lcd_obs>>

\* The DMA tick that ends an emulator tick (emulator.rs:278-286): c is the CPU
\* as the earlier steps of the tick left it, ds the speed read when the tick
\* began (emulator.rs:253), lcd_mode the PPU mode after the PPU's tick.
DmaTickOf(c, lcd_mode, ds) ==
  LET r == dma_tick(dma, c.enabled, lcd_mode, ds)
  IN  /\ dma' = r.dma
      /\ cpu' = [c EXCEPT !.enabled = r.cpu_enabled]
      /\ panicked' = r.panicked
      /\ dma_obs' = [transfer_type |-> dma.active_transfer.transfer_type,
                     mode |-> lcd_mode,
                     cpu_enabled |-> c.enabled,
                     double_speed |-> ds,
                     skipped |-> /\ dma.active_transfer.transfer_type
                                      \in {"GeneralPurpose", "HBlank"}
                                 /\ dma_tick_skipped(dma, ds),
                     cancel_requested |-> dma.cancel_requested,
                     cancel_written |-> dma_obs.cancel_written,
                     writes |-> dma_obs.writes,
                     copy |-> r.copy,
                     ticks_since_dma_write |->
                       IF dma_obs.ticks_since_dma_write \in 0..LegacyLength
                       THEN dma_obs.ticks_since_dma_write + 1
                       ELSE dma_obs.ticks_since_dma_write]

\* An emulator tick in which the CPU, enabled and between instructions, decodes
\* and executes STOP with KEY1 armed: the speed controller switches the speed
\* and resumes the CPU, and the DMA still ticks at the speed read when the
\* tick began.
StopInstruction(lcd_mode) ==
  /\ ProgramRuns
  /\ cpu.enabled
  /\ cpu.instructions = <<>>
  /\ get_bit(key1, 0)
  /\ LET r == speed_tick(key1, [cpu EXCEPT !.stopped = TRUE])
     IN  /\ key1' = r.key1
         /\ DmaTickOf(r.cpu, lcd_mode, double_speed(key1))
  /\ last_op' = "stop"
  /\ UNCHANGED peripherals
  /\ requested' = <<>>
  /\ UNCHANGED <<ic, mem, timer, lcd, cpu_obs, timer_obs, lcd_obs>>

\* The DMA tick of any other emulator tick; the PPU mode it reads is any mode
DmaTick(lcd_mode) ==
  /\ ~panicked
  /\ DmaTickOf(cpu, lcd_mode, double_speed(key1))
  /\ last_op' = "dma_tick"
  /\ UNCHANGED peripherals
  /\ requested' = <<>>
  /\ UNCHANGED <<ic, mem, key1, timer, lcd, cpu_obs, timer_obs, lcd_obs>>

NextDMA ==
  \/ \E v \in HDMA3Samples : WriteHDMA3(v)
  \/ \E v \in HDMA5Samples : WriteHDMA5(v)
  \/ \E v \in {0, 1} : WriteKEY1(v)
  \/ \E m \in DmaModeSamples : StopInstruction(m)
  \/ \E m \in DmaModeSamples : DmaTick(m)

SpecDMA == Init /\ [][NextDMA]_vars


(***************************************************************************)
(* Claims about the general-purpose and H-Blank DMA engines, over SpecDMA. *)
(***************************************************************************)
\* The state after the DMA tick of an emulator tick that did not panic
AfterDmaTick == last_op \in {"dma_tick", "stop"} /\ ~panicked

\* C1: while a general-purpose transfer is in progress the CPU is disabled:
\* after every DMA tick of the transfer that leaves it in progress (every tick
\* before the one that copies the last byte) the CPU's enabled flag is false,
\* in either speed and for every transfer.
C1_CpuDisabledDuringGeneralPurpose ==
  (/\ AfterDmaTick
   /\ dma_obs.transfer_type = "GeneralPurpose"
   /\ dma.active_transfer.transfer_type = "GeneralPurpose")
  => ~cpu.enabled

\* C2 as stated: once cancellation of an H-Blank transfer is requested, every
\* DMA tick in HBlank that observes the CPU disabled copies one byte, a tick in
\* HBlank that observes the CPU enabled copies nothing, makes the transfer
\* Inactive and sets FF55 bit 7, and no tick outside HBlank cancels.
C2_EveryHBlankTickCopiesOrCancels ==
  (/\ AfterDmaTick
   /\ dma_obs.transfer_type = "HBlank"
   /\ dma_obs.cancel_requested)
  => /\ (dma_obs.mode = "HBlank" /\ ~dma_obs.cpu_enabled) => dma_obs.copy # <<>>
     /\ (dma_obs.mode = "HBlank" /\ dma_obs.cpu_enabled)
          => /\ dma_obs.copy = <<>>
             /\ dma.active_transfer.transfer_type = "Inactive"
             /\ get_bit(dma_read_hdma5(dma), 7)
     /\ dma_obs.mode # "HBlank" => dma.active_transfer.transfer_type = "HBlank"

\* C2 amended: the same, for every DMA tick that the double-speed halving does
\* not skip; a skipped tick copies nothing and cancels nothing.
C2_UnskippedHBlankTickCopiesOrCancels ==
  (/\ AfterDmaTick
   /\ dma_obs.transfer_type = "HBlank"
   /\ dma_obs.cancel_requested)
  => /\ (dma_obs.mode = "HBlank" /\ ~dma_obs.cpu_enabled /\ ~dma_obs.skipped)
          => dma_obs.copy # <<>>
     /\ (dma_obs.mode = "HBlank" /\ dma_obs.cpu_enabled /\ ~dma_obs.skipped)
          => /\ dma_obs.copy = <<>>
             /\ dma.active_transfer.transfer_type = "Inactive"
             /\ get_bit(dma_read_hdma5(dma), 7)
     /\ dma_obs.mode # "HBlank" => dma.active_transfer.transfer_type = "HBlank"
     /\ dma_obs.skipped
          => /\ dma_obs.copy = <<>>
             /\ dma.active_transfer.transfer_type = "HBlank"

\* A requested cancellation takes effect after at least one byte was copied
C2_Witness ==
  /\ AfterDmaTick
  /\ dma_obs.transfer_type = "HBlank"
  /\ dma_obs.cancel_requested
  /\ dma_obs.mode = "HBlank"
  /\ dma_obs.cpu_enabled
  /\ ~dma_obs.skipped
  /\ dma.active_transfer.bytes_transferred > 0
  /\ dma.active_transfer.transfer_type = "Inactive"
  /\ get_bit(dma_read_hdma5(dma), 7)

\* C3: during an H-Blank transfer a DMA tick copies a byte only if the PPU
\* mode it reads is HBlank, and after every DMA tick in which the mode is not
\* HBlank the CPU is enabled, in either speed.
C3_HBlankTransferFollowsMode ==
  (AfterDmaTick /\ dma_obs.transfer_type = "HBlank")
  => /\ dma_obs.copy # <<>> => dma_obs.mode = "HBlank"
     /\ dma_obs.mode # "HBlank" => cpu.enabled

(***************************************************************************)
(* TimerControllerImpl (controllers/timer.rs).                             *)
(***************************************************************************)
MaxTimerTicks == 520

MaxSetupTicks == 2

TACSamples == {1, 4, 5, 6, 7}

TIMASamples == {254, 255}

TMASamples == {171}

TimerResult(t, reqs, inc) == [timer |-> t, requests |-> reqs, incremented |-> inc]

\* TimerController::tick counting on the falling edge of the selected bit only
timer_tick_falling_edge(t) ==
  LET old_div == t.divider
      divider == wrapping_add16(old_div, 4)
      t1 == [t EXCEPT !.divider = divider]
  IN  IF t.enabled /\ get_bit(old_div, t.clock_pulse_bit)
                   /\ ~get_bit(divider, t.clock_pulse_bit)
      THEN IF t.timer_counter = 255
           THEN TimerResult([t1 EXCEPT !.timer_counter = t.timer_modulo],
                            <<"TimerOverflow">>, TRUE)
           ELSE TimerResult([t1 EXCEPT !.timer_counter = t.timer_counter + 1], <<>>, TRUE)
      ELSE TimerResult(t1, <<>>, FALSE)

\* TimerController::tick
timer_tick(t) ==
  LET old_div == t.divider
      divider == wrapping_add16(old_div, 4)
      t1 == [t EXCEPT !.divider = divider]
  IN  IF t.enabled /\ (get_bit(old_div, t.clock_pulse_bit)
                         # get_bit(divider, t.clock_pulse_bit))
      THEN IF t.timer_counter = 255
           THEN TimerResult([t1 EXCEPT !.timer_counter = t.timer_modulo],
                            <<"TimerOverflow">>, TRUE)
           ELSE TimerResult([t1 EXCEPT !.timer_counter = t.timer_counter + 1], <<>>, TRUE)
      ELSE TimerResult(t1, <<>>, FALSE)

\* Memory::write of TAC with the selector always choosing bit 10
timer_write_one_rate(t, address, value) ==
  CASE address = 65284 -> [t EXCEPT !.divider = 0]
    [] address = 65285 -> [t EXCEPT !.timer_counter = value]
    [] address = 65286 -> [t EXCEPT !.timer_modulo = value]
    [] address = 65287 ->
         [t EXCEPT !.enabled = get_bit(value, 2),
                   !.clock_pulse_bit = 10,
                   !.timer_controller = value]

\* Memory::write of DIV, TIMA, TMA and TAC
timer_write(t, address, value) ==
  CASE address = 65284 -> [t EXCEPT !.divider = 0]
    [] address = 65285 -> [t EXCEPT !.timer_counter = value]
    [] address = 65286 -> [t EXCEPT !.timer_modulo = value]
    [] address = 65287 ->
         [t EXCEPT !.enabled = get_bit(value, 2),
                   !.clock_pulse_bit =
                      CASE BitAnd(value, 3) = 0 -> 10
                        [] BitAnd(value, 3) = 1 -> 4
                        [] BitAnd(value, 3) = 2 -> 6
                        [] BitAnd(value, 3) = 3 -> 8,
                   !.timer_controller = value]

\* Memory::read of DIV, TIMA, TMA and TAC
timer_read(t, address) ==
  CASE address = 65284 -> get_upper_byte(t.divider)
    [] address = 65285 -> t.timer_counter
    [] address = 65286 -> t.timer_modulo
    [] address = 65287 -> t.timer_controller

\* The program writes the timer's registers within MaxSetupTicks ticks of a
\* divider reset
TimerWrite(address, value, op) ==
  /\ timer_obs.ticks <= MaxSetupTicks
  /\ timer' = timer_write(timer, address, value)
  /\ timer_obs' =
       CASE address = 65284 -> [timer_obs EXCEPT !.ticks = 0, !.valid = TRUE]
         [] address = 65287 -> [timer_obs EXCEPT !.valid = (timer_obs.valid /\ timer_obs.ticks = 0)]
         [] OTHER -> timer_obs
  /\ last_op' = op
  /\ UNCHANGED peripherals
  /\ requested' = <<>>
  /\ UNCHANGED <<ic, cpu, mem, key1, dma, lcd, panicked, cpu_obs, dma_obs, lcd_obs>>

WriteDIV == TimerWrite(65284, 0, "write_div")

WriteTIMA(value) == TimerWrite(65285, value, "write_tima")

WriteTMA(value) == TimerWrite(65286, value, "write_tma")

WriteTAC(value) == TimerWrite(65287, value, "write_tac")

\* The timer's tick of an emulator tick (emulator.rs:277)
TimerTick ==
  /\ timer_obs.ticks < MaxTimerTicks
  /\ LET r == timer_tick(timer)
     IN  /\ timer' = r.timer
         /\ ic' = request_all(ic, r.requests)
         /\ requested' = r.requests
         /\ timer_obs' = [timer_obs EXCEPT !.ticks = timer_obs.ticks + 1,
                                           !.incremented = r.incremented,
                                           !.was_enabled = timer.enabled,
                                           !.bit = timer.clock_pulse_bit,
                                           !.old_div = timer.divider,
                                           !.old_tima = timer.timer_counter]
  /\ last_op' = "timer_tick"
  /\ UNCHANGED peripherals
  /\ UNCHANGED <<cpu, mem, key1, dma, lcd, panicked, cpu_obs, dma_obs, lcd_obs>>

NextTimer ==
  \/ WriteDIV
  \/ \E v \in TIMASamples : WriteTIMA(v)
  \/ \E v \in TMASamples : WriteTMA(v)
  \/ \E v \in TACSamples : WriteTAC(v)
  \/ TimerTick

SpecTimer == Init /\ [][NextTimer]_vars

\* C7 as stated: on every timer tick TIMA is incremented if and only if the
\* timer is enabled and the selected divider bit is 1 before the tick's
\* divider += 4 and 0 after it.
C7_IncrementOnFallingEdge ==
  last_op = "timer_tick"
  => (timer_obs.incremented
        <=> /\ timer_obs.was_enabled
            /\ get_bit(timer_obs.old_div, timer_obs.bit)
            /\ ~get_bit(timer.divider, timer_obs.bit))

\* C7 amended: on every timer tick TIMA is incremented if and only if the
\* timer is enabled and the selected divider bit (bit 10, 4, 6 or 8 of the
\* 16-bit divider for TAC bits 1..0 = 0, 1, 2, 3) differs before and after the
\* tick's divider += 4, whichever way it changes.
C7_IncrementOnEitherEdge ==
  last_op = "timer_tick"
  => /\ timer_obs.incremented
          <=> /\ timer_obs.was_enabled
              /\ get_bit(timer_obs.old_div, timer_obs.bit)
                   # get_bit(timer.divider, timer_obs.bit)
     /\ timer.divider = wrapping_add16(timer_obs.old_div, 4)
     /\ timer_obs.bit = CASE timer.timer_controller % 4 = 0 -> 10
                          [] timer.timer_controller % 4 = 1 -> 4
                          [] timer.timer_controller % 4 = 2 -> 6
                          [] timer.timer_controller % 4 = 3 -> 8

\* TIMA is incremented on a tick in which the selected bit rises
C7_Witness ==
  /\ last_op = "timer_tick"
  /\ timer_obs.incremented
  /\ ~get_bit(timer_obs.old_div, timer_obs.bit)
  /\ get_bit(timer.divider, timer_obs.bit)
  /\ timer.timer_counter = timer_obs.old_tima + 1

\* C8: with the timer enabled and counting from a divider reset, for TAC =
\* 0x04, 0x05, 0x06, 0x07 TIMA is incremented exactly on every 256th, 4th, 16th,
\* 64th tick after the reset; a tick that overflows TIMA requests
\* TimerOverflow exactly once and reloads TIMA from TMA, and no other tick
\* requests it.
C8_TimerFrequencies ==
  (last_op = "timer_tick" /\ timer_obs.valid /\ timer.timer_controller \in {4, 5, 6, 7})
  => /\ LET period == CASE timer.timer_controller = 4 -> 256
                         [] timer.timer_controller = 5 -> 4
                         [] timer.timer_controller = 6 -> 16
                         [] timer.timer_controller = 7 -> 64
        IN  timer_obs.incremented <=> timer_obs.ticks % period = 0
     /\ IF timer_obs.incremented /\ timer_obs.old_tima = 255
        THEN requested = <<"TimerOverflow">> /\ timer.timer_counter = timer.timer_modulo
        ELSE /\ requested = <<>>
             /\ timer.timer_counter =
                  timer_obs.old_tima + (IF timer_obs.incremented THEN 1 ELSE 0)

\* With TAC = 0x04 the 256th tick after the reset overflows TIMA
C8_Witness ==
  /\ last_op = "timer_tick"
  /\ timer_obs.valid
  /\ timer.timer_controller = 4
  /\ timer_obs.ticks = 256
  /\ timer_obs.incremented
  /\ timer_obs.old_tima = 255
  /\ requested = <<"TimerOverflow">>
  /\ timer.timer_counter = 171

(***************************************************************************)
(* LCDControllerImpl (internal/controllers/lcd.rs): the dot clock, the     *)
(* mode, the STAT interrupt line and the V-Blank entry.                    *)
(***************************************************************************)
DOTS_PER_FRAME == 70224

DotsPerLine == 456

VBlankLine == 144

MaxStatTicks == 120

MaxOffTicks == 1

MaxSwitches == 2

MaxSwitchDot == 8

STATSamples == {0, 40, 64}

LYCSamples == {1}

LCDCSamples == {17, 145}

lyc_interrupt_enabled(stat) == get_bit(stat, 6)

interrupt_enabled_for_mode(stat, mode) ==
  CASE mode = "HBlank" -> get_bit(stat, 3)
    [] mode = "VBlank" -> get_bit(stat, 4)
    [] mode = "Mode2" -> get_bit(stat, 5)
    [] mode = "Mode3" -> FALSE

lyc_equals_line(stat) == get_bit(stat, 2)

set_lyc_equals_line(stat, b) == IF b THEN set_bit(stat, 2) ELSE reset_bit(stat, 2)

set_mode(stat, mode) ==
  BitOr(BitAnd(stat, 252),
        CASE mode = "HBlank" -> 0
          [] mode = "VBlank" -> 1
          [] mode = "Mode2" -> 2
          [] mode = "Mode3" -> 3)

lcd_enabled(lcdc) == get_bit(lcdc, 7)

update_mode(l) ==
  LET mode == IF l.line >= VBlankLine THEN "VBlank"
              ELSE IF l.column <= 79 THEN "Mode2"
              ELSE IF l.column <= 247 THEN "Mode3"
              ELSE "HBlank"
  IN  [l EXCEPT !.mode = mode, !.stat = set_mode(l.stat, mode)]

\* The STAT interrupt line as maybe_request_interrupt computes it
new_interrupt_line(l) ==
  \/ interrupt_enabled_for_mode(l.stat, l.mode)
  \/ (lyc_equals_line(l.stat) /\ lyc_interrupt_enabled(l.stat))

LcdResult(l, reqs, fl) == [lcd |-> l, requests |-> reqs, flushes |-> fl, draws |-> 0]

\* maybe_request_interrupt requesting whenever the line is true
maybe_request_interrupt_level(l) ==
  LcdResult([l EXCEPT !.interrupt_line = new_interrupt_line(l)],
            IF new_interrupt_line(l) THEN <<"Stat">> ELSE <<>>, 0)

maybe_request_interrupt(l) ==
  LcdResult([l EXCEPT !.interrupt_line = new_interrupt_line(l)],
            IF new_interrupt_line(l) /\ ~l.interrupt_line THEN <<"Stat">> ELSE <<>>, 0)

\* LCDControllerImpl::tick after the dot counter has advanced, with the LCD
\* enabled
use_8_x_16_tiles(lcdc) == get_bit(lcdc, 2)

\* OAMImpl::get_object_reference_if_intersects: the reference, or none
get_object_reference_if_intersects(o, object_index, line, use_8_x_16) ==
  LET object_lcd_y == o[object_index]
      top_tile_intersects == object_lcd_y <= line + 16 /\ object_lcd_y > line + 8
      bottom_tile_intersects == object_lcd_y <= line + 16 /\ object_lcd_y > line
  IN  IF top_tile_intersects
      THEN <<[object_index |-> object_index, use_bottom_tile |-> FALSE]>>
      ELSE IF use_8_x_16 /\ bottom_tile_intersects
      THEN <<[object_index |-> object_index, use_bottom_tile |-> TRUE]>>
      ELSE <<>>

find_intersecting_objects(l, o) ==
  LET use_8_x_16 == use_8_x_16_tiles(l.lcdc)
  IN  IF Len(l.intersecting_object_references) < 10 /\ l.column % 4 = 0
      THEN LET object_index == l.column \div 2
               first == l.intersecting_object_references
                          \o get_object_reference_if_intersects(o, object_index, l.line,
                                                                 use_8_x_16)
           IN  [l EXCEPT !.intersecting_object_references =
                  IF Len(first) < 10
                  THEN first \o get_object_reference_if_intersects(o, object_index + 1,
                                                                    l.line, use_8_x_16)
                  ELSE first]
      ELSE l

lcd_tick_enabled(l1, o) ==
  LET l2 == [l1 EXCEPT !.line = l1.dot \div DotsPerLine,
                       !.column = l1.dot % DotsPerLine]
      l3 == [l2 EXCEPT !.stat = set_lyc_equals_line(l2.stat, l2.line = l2.lyc)]
      l4 == update_mode(l3)
      r == maybe_request_interrupt(l4)
  IN  CASE r.lcd.mode = "HBlank" ->
             IF r.lcd.column = 248
             THEN [r EXCEPT !.lcd = [r.lcd EXCEPT !.intersecting_object_references = <<>>,
                                                 !.current_object_index = 0]]
             ELSE r
        [] r.lcd.mode = "VBlank" ->
             IF r.lcd.column = 0 /\ r.lcd.line = VBlankLine
             THEN LcdResult(r.lcd, r.requests \o <<"VerticalBlank">>, 1)
             ELSE r
        [] r.lcd.mode = "Mode2" ->
             [r EXCEPT !.lcd = find_intersecting_objects(
                                 [r.lcd EXCEPT !.line_rendered = FALSE], o)]
        [] r.lcd.mode = "Mode3" ->
             IF ~r.lcd.line_rendered
             THEN [r EXCEPT !.lcd = [r.lcd EXCEPT !.line_rendered = TRUE],
                            !.draws = 1]
             ELSE r

\* LCDControllerImpl::tick without the return when the LCD is disabled
lcd_tick_without_return(l, ds, o) ==
  LET number_of_dots_for_tick == IF ds THEN 2 ELSE 4
      dot == (l.dot + number_of_dots_for_tick) % DOTS_PER_FRAME
  IN  lcd_tick_enabled([l EXCEPT !.dot = dot], o)

\* LCDControllerImpl::tick: the controller after it, the interrupts it
\* requested in order, and the numbers of Renderer::flush and draw_line calls
lcd_tick(l, ds, o) ==
  LET number_of_dots_for_tick == IF ds THEN 2 ELSE 4
      dot == (l.dot + number_of_dots_for_tick) % DOTS_PER_FRAME
      l1 == [l EXCEPT !.dot = dot]
  IN  IF ~lcd_enabled(l.lcdc) THEN LcdResult(l1, <<>>, 0)
      ELSE lcd_tick_enabled(l1, o)

\* Memory::write storing the whole value in STAT, mode bits included
lcd_write_whole_stat(l, address, value) ==
  CASE address = 65344 -> [l EXCEPT !.lcdc = value]
    [] address = 65345 -> [l EXCEPT !.stat = value]
    [] address = 65349 -> [l EXCEPT !.lyc = value]

\* Memory::write of LCDC, STAT and LYC
lcd_write(l, address, value) ==
  CASE address = 65344 -> [l EXCEPT !.lcdc = value]
    [] address = 65345 -> [l EXCEPT !.stat = BitOr(BitAnd(l.stat, 7), BitAnd(value, 248))]
    [] address = 65349 -> [l EXCEPT !.lyc = value]

\* Memory::read of LCDC, STAT, LY and LYC
lcd_read(l, address) ==
  CASE address = 65344 -> l.lcdc
    [] address = 65345 -> BitOr(128, l.stat)
    [] address = 65348 -> l.line
    [] address = 65349 -> l.lyc

LcdWrite(address, value, op) ==
  /\ ProgramRuns
  /\ lcd' = lcd_write(lcd, address, value)
  /\ last_op' = op
  /\ UNCHANGED peripherals
  /\ requested' = <<>>
  /\ UNCHANGED <<ic, cpu, mem, key1, dma, timer, panicked, cpu_obs, dma_obs,
                 timer_obs, lcd_obs>>

WriteLCDC(value) == LcdWrite(65344, value, "write_lcdc")

WriteSTAT(value) == LcdWrite(65345, value, "write_stat")

WriteLYC(value) == LcdWrite(65349, value, "write_lyc")

Count(seq, x) == Cardinality({i \in DOMAIN seq : seq[i] = x})

\* The PPU's tick of an emulator tick (emulator.rs:279) at the speed ds read
\* when the tick began. A frame ends when the dot counter wraps.
LcdTickOf(ds, switched) ==
  LET r == lcd_tick(lcd, ds, oam)
      wrapped == r.lcd.dot < lcd.dot
      vblanks == lcd_obs.frame_vblank + Count(r.requests, "VerticalBlank")
      flushes == lcd_obs.frame_flush + r.flushes
  IN  /\ lcd' = r.lcd
      /\ ic' = request_all(ic, r.requests)
      /\ requested' = r.requests
      /\ lcd_obs' =
           [off_ticks |-> IF lcd_enabled(lcd.lcdc) THEN lcd_obs.off_ticks
                          ELSE lcd_obs.off_ticks + 1,
            switches |-> lcd_obs.switches + (IF switched THEN 1 ELSE 0),
            was_enabled |-> lcd_enabled(lcd.lcdc),
            line_before |-> lcd.interrupt_line,
            line_after |-> r.lcd.interrupt_line,
            mode_before |-> lcd.mode,
            ly_before |-> lcd.line,
            flushes |-> r.flushes,
            draws |-> r.draws,
            frame_vblank |-> IF wrapped THEN 0 ELSE vblanks,
            frame_flush |-> IF wrapped THEN 0 ELSE flushes,
            frame_ended |-> lcd_obs.frame_ended \/ wrapped,
            ended_vblank |-> IF wrapped THEN vblanks ELSE lcd_obs.ended_vblank,
            ended_flush |-> IF wrapped THEN flushes ELSE lcd_obs.ended_flush,
            before |-> lcd,
            double_speed |-> ds]

\* A PPU tick, with the LCD on or (at most MaxOffTicks times) off
PpuTick ==
  /\ ~panicked
  /\ lcd.dot < 4 * MaxStatTicks
  /\ lcd_enabled(lcd.lcdc) \/ lcd_obs.off_ticks < MaxOffTicks
  /\ LcdTickOf(double_speed(key1), FALSE)
  /\ last_op' = "lcd_tick"
  /\ UNCHANGED peripherals
  /\ UNCHANGED <<cpu, mem, key1, dma, timer, panicked, cpu_obs, dma_obs, timer_obs>>

NextStat ==
  \/ \E v \in LCDCSamples : WriteLCDC(v)
  \/ \E v \in STATSamples : WriteSTAT(v)
  \/ \E v \in LYCSamples : WriteLYC(v)
  \/ PpuTick

SpecStat == Init /\ [][NextStat]_vars

\* The program arms a speed switch near the start of a frame
ArmSpeedSwitch ==
  /\ lcd.dot <= MaxSwitchDot
  /\ lcd_obs.switches < MaxSwitches
  /\ ~get_bit(key1, 0)
  /\ WriteKEY1(1)

\* An emulator tick in which the CPU executes STOP with KEY1 armed: the speed
\* switches, and the PPU still ticks at the speed read when the tick began
SpeedSwitchTick ==
  /\ ProgramRuns
  /\ cpu.enabled
  /\ cpu.instructions = <<>>
  /\ get_bit(key1, 0)
  /\ LET r == speed_tick(key1, [cpu EXCEPT !.stopped = TRUE])
     IN  /\ key1' = r.key1
         /\ cpu' = r.cpu
  /\ LcdTickOf(double_speed(key1), TRUE)
  /\ last_op' = "lcd_tick"
  /\ UNCHANGED peripherals
  /\ UNCHANGED <<mem, dma, timer, panicked, cpu_obs, dma_obs, timer_obs>>

\* The PPU tick of any other emulator tick
FrameTick ==
  /\ ~panicked
  /\ LcdTickOf(double_speed(key1), FALSE)
  /\ last_op' = "lcd_tick"
  /\ UNCHANGED peripherals
  /\ UNCHANGED <<cpu, mem, key1, dma, timer, panicked, cpu_obs, dma_obs, timer_obs>>

NextFrame ==
  \/ ArmSpeedSwitch
  \/ SpeedSwitchTick
  \/ FrameTick

SpecFrame == Init /\ [][NextFrame]_vars

\* C9: a Stat interrupt is requested in a PPU tick if and only if the STAT
\* interrupt line is true after that tick and was false after the previous
\* one, the line being (enable bit of the current mode) or (LY = LYC and the
\* LYC enable bit) as computed by the tick; a tick with the LCD off computes
\* nothing, keeps the line and requests nothing, and register writes between
\* ticks do not change the line.
C9_StatOnRisingEdgeOnly ==
  /\ lcd.interrupt_line = lcd_obs.line_after
  /\ last_op = "lcd_tick"
     => /\ Count(requested, "Stat") =
             (IF lcd.interrupt_line /\ ~lcd_obs.line_before THEN 1 ELSE 0)
        /\ lcd_obs.was_enabled
             => lcd.interrupt_line =
                  (\/ interrupt_enabled_for_mode(lcd.stat, lcd.mode)
                   \/ (lcd.line = lcd.lyc /\ get_bit(lcd.stat, 6)))
        /\ ~lcd_obs.was_enabled => lcd.interrupt_line = lcd_obs.line_before

\* The line stays true from HBlank into Mode2 with both enable bits set, and
\* the tick that enters Mode2 requests nothing
C9_Witness ==
  /\ last_op = "lcd_tick"
  /\ lcd_obs.was_enabled
  /\ lcd_obs.mode_before = "HBlank"
  /\ lcd.mode = "Mode2"
  /\ get_bit(lcd.stat, 3)
  /\ get_bit(lcd.stat, 5)
  /\ lcd_obs.line_before
  /\ lcd.interrupt_line
  /\ requested = <<>>

\* C10: with the LCD enabled, in every frame of 70224 dots VerticalBlank is
\* requested exactly once, in the tick in which the PPU enters line 144 at
\* column 0 (dot 65664), and the pixel sink is flushed exactly once, in that
\* same tick.
C10_VBlankOncePerFrame ==
  /\ (last_op = "lcd_tick" /\ lcd_obs.was_enabled)
     => /\ Count(requested, "VerticalBlank") = (IF lcd.dot = 65664 THEN 1 ELSE 0)
        /\ lcd_obs.flushes = Count(requested, "VerticalBlank")
        /\ (lcd_obs.ly_before < VBlankLine /\ lcd.line = VBlankLine)
             => Count(requested, "VerticalBlank") = 1
  /\ lcd_obs.frame_ended => (lcd_obs.ended_vblank = 1 /\ lcd_obs.ended_flush = 1)

\* C40: after any sequence of ticks and speed switches the dot counter is a
\* multiple of 2, and a multiple of 4 whenever the emulator is in normal
\* speed, where the PPU advances 4 dots per tick.
C40_DotAlignedToStep ==
  /\ lcd.dot % 2 = 0
  /\ ~double_speed(key1) => lcd.dot % 4 = 0

(***************************************************************************)
(* CPUImpl (internal/cpu/cpu.rs) with the part of the decoder              *)
(* (cpu/decoder.rs) and of the memory bus (memory/bus.rs) that the         *)
(* sampled programs use.                                                   *)
(***************************************************************************)
MaxInstructions == 5

\* STOP, LD SP,nn, the CB prefix, JP C,nn, LDH (n),A, EI
OpcodeSamples == {16, 49, 203, 218, 224, 251}

\* BIT 7,A
CBOpcodeSamples == {127}

\* What the button controller, the timer and the PPU request in one tick
EnvRequestSamples == {<<>>, <<"TimerOverflow">>, <<"ButtonPressed">>}

\* The immediate bytes that follow an opcode in the sampled programs
ImmediateSamples(opcode, dst) ==
  CASE opcode = 49 /\ dst = "LowerSP" -> {16}
    [] opcode = 49 /\ dst = "UpperSP" -> {208, 255}
    [] opcode = 62 -> {16}
    [] opcode = 224 -> {255}
    [] opcode \in {194, 202, 210, 218} /\ dst = "LowerAddressBuffer" -> {80}
    [] opcode \in {194, 202, 210, 218} /\ dst = "UpperAddressBuffer" -> {1}
    [] opcode = 8 /\ dst = "LowerAddressBuffer" -> {255}
    [] opcode = 8 /\ dst = "UpperAddressBuffer" -> {192}
    [] OTHER -> {0}

Instr(op, src, dst, val) == [op |-> op, src |-> src, dst |-> dst, val |-> val]

Defer == Instr("Defer", "", "", 0)

MoveByte(src, dst) == Instr("MoveByte", src, dst, 0)

MoveWord(src, dst, val) == Instr("MoveWord", src, dst, val)

y_bits(opcode) == (opcode \div 8) % 8

z_bits(opcode) == opcode % 8

cc_bits(opcode) == (opcode \div 8) % 4

dd_bits(opcode) == (opcode \div 16) % 4

from_dd_bits(bits) ==
  CASE bits = 0 -> "BC" [] bits = 1 -> "DE" [] bits = 2 -> "HL" [] bits = 3 -> "SP"

from_r_bits(bits) ==
  CASE bits = 7 -> "A" [] bits = 0 -> "B" [] bits = 1 -> "C" [] bits = 2 -> "D"
    [] bits = 3 -> "E" [] bits = 4 -> "UpperHL" [] bits = 5 -> "LowerHL"

qq_bits(opcode) == (opcode \div 16) % 4

from_qq_bits(bits) ==
  CASE bits = 0 -> "BC" [] bits = 1 -> "DE" [] bits = 2 -> "HL" [] bits = 3 -> "AF"

get_upper_byte_register(r) ==
  CASE r = "AF" -> "A" [] r = "BC" -> "B" [] r = "DE" -> "D" [] r = "HL" -> "UpperHL"
    [] r = "PC" -> "UpperPC" [] r = "SP" -> "UpperSP"

get_lower_byte_register(r) ==
  CASE r = "AF" -> "F" [] r = "BC" -> "C" [] r = "DE" -> "E" [] r = "HL" -> "LowerHL"
    [] r = "PC" -> "LowerPC" [] r = "SP" -> "LowerSP"

immediate_to_reg_ld(opcode) ==
  <<Defer, MoveByte("NextMemoryByte", from_r_bits(y_bits(opcode)))>>

reg_a_to_immediate_indirect_with_offset_ld ==
  <<Defer,
    Instr("MoveByte", "Value", "UpperAddressBuffer", 255),
    MoveByte("NextMemoryByte", "LowerAddressBuffer"),
    Defer,
    MoveByte("A", "MemoryReferencedByAddressBuffer")>>

immediate_to_reg_pair_ld(opcode) ==
  LET register == from_dd_bits(dd_bits(opcode))
  IN  <<Defer,
        MoveByte("NextMemoryByte", get_lower_byte_register(register)),
        MoveByte("NextMemoryByte", get_upper_byte_register(register))>>

pop_stack_to_reg_pair(opcode) ==
  LET register == from_qq_bits(qq_bits(opcode))
  IN  <<Defer,
        MoveByte("MemoryReferencedBySP", get_lower_byte_register(register)),
        Instr("IncrementWord", "", "SP", 0),
        Defer,
        MoveByte("MemoryReferencedBySP", get_upper_byte_register(register)),
        Instr("IncrementWord", "", "SP", 0)>>

\* AddWords with WordBuffer as second operand; val is the mask of the flags it
\* writes: none without set_flag, 0xF0 with reset_zero_flag, 0x70 otherwise
AddWords(first, destination, set_flag, reset_zero_flag) ==
  Instr("AddWords", first, destination,
        IF ~set_flag THEN 0 ELSE IF reset_zero_flag THEN 240 ELSE 112)

reg_sp_plus_signed_immediate_to_hl_ld ==
  <<Instr("MoveByte", "Value", "F", 0),
    Defer,
    Instr("CastByteToSignedWord", "NextMemoryByte", "WordBuffer", 0),
    Defer,
    AddWords("SP", "HL", TRUE, TRUE)>>

add_immediate_to_reg_sp ==
  <<Defer,
    Instr("CastByteToSignedWord", "NextMemoryByte", "WordBuffer", 0),
    Defer,
    AddWords("SP", "WordBuffer", TRUE, TRUE),
    MoveByte("LowerWordBuffer", "LowerSP"),
    Defer,
    MoveByte("UpperWordBuffer", "UpperSP")>>

reg_sp_to_immediate_indirect_ld ==
  <<Defer,
    MoveByte("NextMemoryByte", "LowerAddressBuffer"),
    MoveByte("NextMemoryByte", "UpperAddressBuffer"),
    MoveByte("LowerSP", "MemoryReferencedByAddressBuffer"),
    Defer,
    Instr("IncrementWord", "", "AddressBuffer", 0),
    MoveByte("UpperSP", "MemoryReferencedByAddressBuffer")>>

get_reg_bit(opcode) ==
  <<Instr("GetBitFromByte", from_r_bits(z_bits(opcode)), "", y_bits(opcode))>>

get_branching_instruction(opcode) ==
  CASE cc_bits(opcode) = 0 -> Instr("BranchIfNotZero", "", "", 0)
    [] cc_bits(opcode) = 1 -> Instr("BranchIfZero", "", "", 0)
    [] cc_bits(opcode) = 2 -> Instr("BranchIfNotCarry", "", "", 0)
    [] cc_bits(opcode) = 3 -> Instr("BranchIfCarry", "", "", 0)

\* jump_conditional moving the address to PC in the cycle that tests the
\* condition
jump_conditional_without_defer(opcode) ==
  <<Defer,
    MoveByte("NextMemoryByte", "LowerAddressBuffer"),
    Defer,
    MoveByte("NextMemoryByte", "UpperAddressBuffer"),
    get_branching_instruction(opcode),
    MoveWord("AddressBuffer", "PC", 0),
    Instr("EndBranch", "", "", 0)>>

jump_conditional(opcode) ==
  <<Defer,
    MoveByte("NextMemoryByte", "LowerAddressBuffer"),
    Defer,
    MoveByte("NextMemoryByte", "UpperAddressBuffer"),
    get_branching_instruction(opcode),
    Defer,
    MoveWord("AddressBuffer", "PC", 0),
    Instr("EndBranch", "", "", 0)>>

\* The service sequence pushing the low byte of PC before the high byte
schedule_call_interrupt_routine_low_first(interrupt) ==
  <<Instr("ClearInterrupt", interrupt, "", 0),
    Instr("DisableInterrupts", "", "", 0),
    Defer,
    Instr("Noop", "", "", 0),
    Instr("DecrementWord", "", "SP", 0),
    MoveByte("LowerPC", "MemoryReferencedBySP"),
    Defer,
    Instr("DecrementWord", "", "SP", 0),
    MoveByte("UpperPC", "MemoryReferencedBySP"),
    Defer,
    MoveWord("Value", "PC", get_routine_address(interrupt))>>

schedule_call_interrupt_routine(interrupt) ==
  <<Instr("ClearInterrupt", interrupt, "", 0),
    Instr("DisableInterrupts", "", "", 0),
    Defer,
    Instr("Noop", "", "", 0),
    Instr("DecrementWord", "", "SP", 0),
    MoveByte("UpperPC", "MemoryReferencedBySP"),
    Defer,
    Instr("DecrementWord", "", "SP", 0),
    MoveByte("LowerPC", "MemoryReferencedBySP"),
    Defer,
    MoveWord("Value", "PC", get_routine_address(interrupt))>>

\* InstructionDecoder::decode on the sampled opcodes; no other opcode is fetched
decode(opcode) ==
  CASE opcode = 0 -> <<>>
    [] opcode = 8 -> reg_sp_to_immediate_indirect_ld
    [] opcode = 16 -> <<Instr("Stop", "", "", 0)>>
    [] opcode = 49 -> immediate_to_reg_pair_ld(opcode)
    [] opcode = 62 -> immediate_to_reg_ld(opcode)
    [] opcode = 203 -> <<Defer, Instr("DecodeCBInstruction", "", "", 0)>>
    [] opcode \in {194, 202, 210, 218} -> jump_conditional(opcode)
    [] opcode = 224 -> reg_a_to_immediate_indirect_with_offset_ld
    [] opcode = 232 -> add_immediate_to_reg_sp
    [] opcode = 241 -> pop_stack_to_reg_pair(opcode)
    [] opcode = 243 -> <<Instr("DisableInterrupts", "", "", 0)>>
    [] opcode = 248 -> reg_sp_plus_signed_immediate_to_hl_ld
    [] opcode = 251 -> <<Instr("EnableInterrupts", "", "", 0)>>
    [] OTHER -> <<>>

\* InstructionDecoder::decode_cb on the sampled opcodes
decode_cb(opcode) ==
  IF opcode = 127 THEN get_reg_bit(opcode) ELSE <<>>

(***************************************************************************)
(* MemoryBus: the interrupt, timer, PPU, DMA and speed registers, and the  *)
(* storing areas (work RAM, the reserved areas, unmapped FF08..FF0E, high  *)
(* RAM), which start zeroed and are kept in mem. Writes to the cartridge   *)
(* and to the other devices change nothing that is modelled here.          *)
(***************************************************************************)
WorkRam == 49152..57343

HighRam == 65408..65534

StoredOnWrite(address) ==
  \/ address \in WorkRam
  \/ (address >= 57344 /\ address <= 65023)
  \/ (address >= 65185 /\ address <= 65279)
  \/ (address >= 65288 /\ address <= 65294)
  \/ address \in HighRam

mem_read(m, address) == IF address \in DOMAIN m THEN m[address] ELSE 0

bus_read(b, address) ==
  CASE address \in {65184, 65185, 65295, 65535} -> ic_read(b.ic, address)
    [] address \in 65284..65287 -> timer_read(b.timer, address)
    [] address \in {65344, 65345, 65348, 65349} -> lcd_read(b.lcd, address)
    [] address = 65357 -> b.key1
    [] address = 65365 -> dma_read_hdma5(b.dma)
    [] OTHER -> mem_read(b.mem, address)

bus_write(b, address, value) ==
  CASE address \in {65184, 65295, 65535} -> [b EXCEPT !.ic = ic_write(b.ic, address, value)]
    [] address \in 65284..65287 -> [b EXCEPT !.timer = timer_write(b.timer, address, value)]
    [] address \in {65344, 65345, 65349} -> [b EXCEPT !.lcd = lcd_write(b.lcd, address, value)]
    [] address = 65357 -> [b EXCEPT !.key1 = speed_write(b.key1, value)]
    [] address \in {65350} \cup (65361..65365) ->
         [b EXCEPT !.dma = dma_write(b.dma, address, value)]
    [] StoredOnWrite(address) -> [b EXCEPT !.mem = (address :> value) @@ b.mem]
    [] OTHER -> b

(***************************************************************************)
(* The micro-operations of CPUImpl. b is the CPU with the devices it       *)
(* reaches through the bus, the bytes its fetches will read (b.fetch) and  *)
(* the history of the tick (b.obs).                                        *)
(***************************************************************************)
read_next_byte(b) ==
  [value |-> IF b.fetch = <<>> THEN 0 ELSE Head(b.fetch),
   b |-> [b EXCEPT !.cpu.pc = b.cpu.pc + 1,
                   !.fetch = IF b.fetch = <<>> THEN <<>> ELSE Tail(b.fetch),
                   !.obs.accesses = b.obs.accesses \o <<"fetch">>]]

read_byte(b, location, val) ==
  CASE location = "Value" -> [value |-> val, b |-> b]
    [] location = "A" -> [value |-> b.cpu.a, b |-> b]
    [] location = "F" -> [value |-> b.cpu.f, b |-> b]
    [] location = "UpperPC" -> [value |-> get_upper_byte(b.cpu.pc), b |-> b]
    [] location = "LowerPC" -> [value |-> get_lower_byte(b.cpu.pc), b |-> b]
    [] location = "UpperSP" -> [value |-> get_upper_byte(b.cpu.sp), b |-> b]
    [] location = "LowerSP" -> [value |-> get_lower_byte(b.cpu.sp), b |-> b]
    [] location = "LowerAddressBuffer" ->
         [value |-> get_lower_byte(b.cpu.address_buffer), b |-> b]
    [] location = "UpperAddressBuffer" ->
         [value |-> get_upper_byte(b.cpu.address_buffer), b |-> b]
    [] location = "LowerWordBuffer" ->
         [value |-> get_lower_byte(b.cpu.word_buffer), b |-> b]
    [] location = "UpperWordBuffer" ->
         [value |-> get_upper_byte(b.cpu.word_buffer), b |-> b]
    [] location = "MemoryReferencedByAddressBuffer" ->
         [value |-> bus_read(b, b.cpu.address_buffer),
          b |-> [b EXCEPT !.obs.accesses = b.obs.accesses \o <<"read">>]]
    [] location = "MemoryReferencedBySP" ->
         [value |-> bus_read(b, b.cpu.sp),
          b |-> [b EXCEPT !.obs.accesses = b.obs.accesses \o <<"read">>]]
    [] location = "NextMemoryByte" -> read_next_byte(b)

write_byte(b, location, value) ==
  CASE location = "A" -> [b EXCEPT !.cpu.a = value]
    [] location = "F" -> [b EXCEPT !.cpu.f = value]
    [] location = "UpperPC" -> [b EXCEPT !.cpu.pc = get_lower_byte(b.cpu.pc) + value * 256]
    [] location = "LowerPC" -> [b EXCEPT !.cpu.pc = get_upper_byte(b.cpu.pc) * 256 + value]
    [] location = "UpperSP" -> [b EXCEPT !.cpu.sp = get_lower_byte(b.cpu.sp) + value * 256]
    [] location = "LowerSP" -> [b EXCEPT !.cpu.sp = get_upper_byte(b.cpu.sp) * 256 + value]
    [] location = "LowerAddressBuffer" ->
         [b EXCEPT !.cpu.address_buffer = get_upper_byte(b.cpu.address_buffer) * 256 + value]
    [] location = "UpperAddressBuffer" ->
         [b EXCEPT !.cpu.address_buffer = get_lower_byte(b.cpu.address_buffer) + value * 256]
    [] location = "MemoryReferencedByAddressBuffer" ->
         bus_write([b EXCEPT !.obs.accesses = b.obs.accesses \o <<"write">>],
                   b.cpu.address_buffer, value)
    [] location = "MemoryReferencedBySP" ->
         bus_write([b EXCEPT !.obs.accesses = b.obs.accesses \o <<"write">>],
                   b.cpu.sp, value)

move_byte(b, i) ==
  LET r == read_byte(b, i.src, i.val)
  IN  write_byte(r.b, i.dst, r.value)

move_word(b, i) ==
  LET word == IF i.src = "Value" THEN i.val ELSE b.cpu.address_buffer
  IN  [b EXCEPT !.cpu.pc = word]

decrement_word(b, i) == [b EXCEPT !.cpu.sp = wrapping_sub16(b.cpu.sp, 1)]

increment_word(b, i) ==
  IF i.dst = "SP" THEN [b EXCEPT !.cpu.sp = wrapping_add16(b.cpu.sp, 1)]
  ELSE [b EXCEPT !.cpu.address_buffer = wrapping_add16(b.cpu.address_buffer, 1)]

\* read_word and write_word on the locations the sampled instructions use
read_word(b, location) ==
  CASE location = "SP" -> b.cpu.sp
    [] location = "HL" -> b.cpu.hl
    [] location = "WordBuffer" -> b.cpu.word_buffer
    [] location = "AddressBuffer" -> b.cpu.address_buffer

write_word(b, location, value) ==
  CASE location = "SP" -> [b EXCEPT !.cpu.sp = value]
    [] location = "HL" -> [b EXCEPT !.cpu.hl = value]
    [] location = "WordBuffer" -> [b EXCEPT !.cpu.word_buffer = value]
    [] location = "AddressBuffer" -> [b EXCEPT !.cpu.address_buffer = value]

\* as i8 as u16
cast_byte_to_signed_word(b, i) ==
  LET r == read_byte(b, i.src, 0)
  IN  write_word(r.b, i.dst, IF r.value >= 128 THEN 65280 + r.value ELSE r.value)

BitXor(x, y) == x + y - 2 * BitAnd(x, y)

write_byte_masked(old, value, mask) == BitOr(BitAnd(255 - mask, old), BitAnd(mask, value))

get_bit_from_byte(b, i) ==
  LET r == read_byte(b, i.src, 0)
      flags == (IF ~get_bit(r.value, i.val) THEN 128 ELSE 0) + 32
  IN  [r.b EXCEPT !.cpu.f = write_byte_masked(r.b.cpu.f, flags, 224)]

add_words(b, i) ==
  LET first_value == read_word(b, i.src)
      second_value == b.cpu.word_buffer
      low == get_lower_byte(first_value) + get_lower_byte(second_value)
      result1 == low % 256
      carry1 == low \div 256
      result2 == get_upper_byte(first_value) + get_upper_byte(second_value) + carry1
      carry_result2 == BitXor(BitXor(get_upper_byte(first_value), get_upper_byte(second_value)),
                              result2)
      result == result1 + (result2 % 256) * 256
      flag == (IF get_bit(carry_result2, 4) THEN 32 ELSE 0)
                + (IF get_bit(carry_result2, 8) THEN 16 ELSE 0)
      b1 == IF i.val # 0
            THEN [b EXCEPT !.cpu.f = write_byte_masked(b.cpu.f, flag, i.val)]
            ELSE b
  IN  write_word(b1, i.dst, result)

RECURSIVE pop_branch_instructions(_)
pop_branch_instructions(q) ==
  IF q = <<>> THEN <<>>
  ELSE IF Head(q).op = "EndBranch" THEN Tail(q)
  ELSE pop_branch_instructions(Tail(q))

branch(b, skip) ==
  IF skip THEN [b EXCEPT !.cpu.instructions = pop_branch_instructions(b.cpu.instructions)]
  ELSE b

execute_instruction(b, i) ==
  CASE i.op \in {"Noop", "EndBranch", "Halt"} -> b
    [] i.op = "BranchIfZero" -> branch(b, ~get_bit(b.cpu.f, 7))
    [] i.op = "BranchIfNotZero" -> branch(b, get_bit(b.cpu.f, 7))
    [] i.op = "BranchIfCarry" -> branch(b, ~get_bit(b.cpu.f, 4))
    [] i.op = "BranchIfNotCarry" -> branch(b, get_bit(b.cpu.f, 4))
    [] i.op = "MoveByte" -> move_byte(b, i)
    [] i.op = "MoveWord" -> move_word(b, i)
    [] i.op = "DecrementWord" -> decrement_word(b, i)
    [] i.op = "IncrementWord" -> increment_word(b, i)
    [] i.op = "CastByteToSignedWord" -> cast_byte_to_signed_word(b, i)
    [] i.op = "AddWords" -> add_words(b, i)
    [] i.op = "GetBitFromByte" -> get_bit_from_byte(b, i)
    [] i.op = "ClearInterrupt" ->
         LET interrupt_request == bus_read(b, 65295)
             b1 == bus_write(b, 65295, reset_bit(interrupt_request, interrupt_get_bit(i.src)))
         IN  [b1 EXCEPT !.obs.if0 = interrupt_request, !.obs.requested_meanwhile = {}]
    [] i.op = "EnableInterrupts" -> bus_write(b, 65184, 1)
    [] i.op = "DisableInterrupts" -> bus_write(b, 65184, 0)
    [] i.op = "Stop" -> [b EXCEPT !.cpu.stopped = TRUE]
    [] i.op = "DecodeCBInstruction" ->
         LET r == read_next_byte(b)
         IN  [r.b EXCEPT !.cpu.instructions = r.b.cpu.instructions \o decode_cb(r.value),
                         !.obs.decoded_cb = TRUE]

RECURSIVE execute_machine_cycle(_)
execute_machine_cycle(b) ==
  IF b.cpu.instructions = <<>> THEN b
  ELSE LET instruction == Head(b.cpu.instructions)
           b1 == [b EXCEPT !.cpu.instructions = Tail(b.cpu.instructions)]
       IN  IF instruction.op = "Defer" THEN [b1 EXCEPT !.obs.deferred = TRUE]
           ELSE execute_machine_cycle(execute_instruction(b1, instruction))

decode_instruction(b) ==
  LET r == read_next_byte(b)
  IN  [r.b EXCEPT !.cpu.instructions = r.b.cpu.instructions \o decode(r.value),
                  !.obs.event = "decode",
                  !.obs.opcode = r.value,
                  !.obs.count = b.obs.count + 1,
                  !.obs.cycles = 1,
                  !.obs.start_pc = b.cpu.pc]

\* The scheduling of the service sequence of interrupt i
service(b, i, event) ==
  [b EXCEPT !.cpu.instructions = b.cpu.instructions \o schedule_call_interrupt_routine(i),
            !.cpu.stopped = IF i = "ButtonPressed" THEN FALSE ELSE b.cpu.stopped,
            !.obs.event = event,
            !.obs.opcode = -1,
            !.obs.servicing = i,
            !.obs.p = b.cpu.pc,
            !.obs.s = b.cpu.sp]

\* A tick that would never continue the instruction in flight
continues_instruction_never(c) == FALSE

\* !self.instructions.is_empty() in CPUImpl::tick
continues_instruction(c) == c.instructions # <<>>

\* CPUImpl::tick with a stopped CPU woken by bit 4 of IF, enabled or not
cpu_tick_woken_by_request(b) ==
  IF b.cpu.stopped
  THEN IF get_bit(bus_read(b, 65295), 4)
       THEN service(b, "ButtonPressed", "wake")
       ELSE [b EXCEPT !.obs.event = "stopped"]
  ELSE IF continues_instruction(b.cpu)
  THEN execute_machine_cycle([b EXCEPT !.obs.event = "continue",
                                       !.obs.cycles = b.obs.cycles + 1])
  ELSE IF b.cpu.enabled
  THEN LET optional_interrupt == from_bit(bus_read(b, 65185))
       IN  IF optional_interrupt # NoInterrupt
           THEN execute_machine_cycle(service(b, optional_interrupt, "service"))
           ELSE execute_machine_cycle(decode_instruction(b))
  ELSE [b EXCEPT !.obs.event = "disabled"]

\* CPUImpl::tick
cpu_tick(b) ==
  IF b.cpu.stopped
  THEN IF from_bit(bus_read(b, 65185)) = "ButtonPressed"
       THEN service(b, "ButtonPressed", "wake")
       ELSE [b EXCEPT !.obs.event = "stopped"]
  ELSE IF continues_instruction(b.cpu)
  THEN execute_machine_cycle([b EXCEPT !.obs.event = "continue",
                                       !.obs.cycles = b.obs.cycles + 1])
  ELSE IF b.cpu.enabled
  THEN LET optional_interrupt == from_bit(bus_read(b, 65185))
       IN  IF optional_interrupt # NoInterrupt
           THEN execute_machine_cycle(service(b, optional_interrupt, "service"))
           ELSE execute_machine_cycle(decode_instruction(b))
  ELSE [b EXCEPT !.obs.event = "disabled"]

\* The bytes the fetches of the next machine cycle read, one choice for each
\* NextMemoryByte and DecodeCBInstruction before the next Defer
RECURSIVE cycle_fetches(_, _)
cycle_fetches(q, opcode) ==
  IF q = <<>> \/ Head(q).op = "Defer" THEN {<<>>}
  ELSE LET rest == cycle_fetches(Tail(q), opcode)
           here == IF Head(q).op = "DecodeCBInstruction" THEN CBOpcodeSamples
                   ELSE IF Head(q).op = "MoveByte" /\ Head(q).src = "NextMemoryByte"
                   THEN ImmediateSamples(opcode, Head(q).dst)
                   ELSE {}
       IN  IF here = {} THEN rest
           ELSE {<<v>> \o r : v \in here, r \in rest}

\* The next tick fetches the first opcode byte of an instruction
DecodesNext ==
  /\ ~cpu.stopped
  /\ cpu.instructions = <<>>
  /\ cpu.enabled
  /\ get_requested_interrupt(ic) = NoInterrupt

FetchChoices ==
  IF DecodesNext THEN {<<v>> : v \in OpcodeSamples}
  ELSE IF ~cpu.stopped /\ cpu.instructions # <<>>
  THEN cycle_fetches(cpu.instructions, cpu_obs.opcode)
  ELSE {<<>>}

\* The history at the start of a tick: what the last service sequence left is
\* forgotten once it has been observed complete
StartObs ==
  LET o == IF cpu_obs.completed
           THEN [cpu_obs EXCEPT !.servicing = NoInterrupt, !.p = 0, !.s = 0, !.if0 = -1,
                                !.requested_meanwhile = {}, !.completed = FALSE]
           ELSE cpu_obs
  IN  [o EXCEPT !.event = "none", !.queue_was_empty = (cpu.instructions = <<>>),
                !.decoded_cb = FALSE, !.deferred = FALSE, !.accesses = <<>>,
                !.was_enabled = cpu.enabled]

\* An emulator tick as the CPU sees it (emulator.rs:252-287): the CPU's tick,
\* the speed controller's tick, the interrupts reqs that the button
\* controller, the timer and the PPU request, and the DMA controller's tick,
\* which leaves the CPU enabled or disabled (en).
CpuTick(reqs, en) ==
  /\ ~panicked
  /\ DecodesNext => cpu_obs.count < MaxInstructions
  /\ \E fetch \in FetchChoices :
     \E b \in {cpu_tick([cpu |-> cpu, ic |-> ic, mem |-> mem, key1 |-> key1, dma |-> dma,
                           timer |-> timer, lcd |-> lcd, fetch |-> fetch,
                           obs |-> StartObs])} :
       LET r == speed_tick(b.key1, b.cpu)
           in_service == b.obs.servicing # NoInterrupt
       IN  /\ cpu' = [r.cpu EXCEPT !.enabled = en]
           /\ key1' = r.key1
           /\ ic' = request_all(b.ic, reqs)
           /\ mem' = b.mem
           /\ dma' = b.dma
           /\ timer' = b.timer
           /\ lcd' = b.lcd
           /\ cpu_obs' =
                [b.obs EXCEPT
                   !.requested_meanwhile =
                      IF in_service /\ b.obs.if0 # -1
                      THEN b.obs.requested_meanwhile \cup {reqs[k] : k \in DOMAIN reqs}
                      ELSE {},
                   !.completed = /\ in_service
                                 /\ b.obs.event = "continue"
                                 /\ b.cpu.instructions = <<>>,
                   !.before = IF cpu.stopped
                              THEN [cpu |-> cpu, ic |-> ic, mem |-> mem]
                              ELSE <<>>]
  /\ requested' = reqs
  /\ last_op' = "cpu_tick"
  /\ UNCHANGED peripherals
  /\ UNCHANGED <<panicked, dma_obs, timer_obs, lcd_obs>>

NextCPU == \E reqs \in EnvRequestSamples, en \in BOOLEAN : CpuTick(reqs, en)

SpecCPU == Init /\ [][NextCPU]_vars

\* C4 as stated: an opcode is fetched and decoded, or an interrupt-service
\* sequence is scheduled, only in a CPU tick that begins with an empty
\* micro-op queue; the queue is non-empty at the start of every later tick of
\* a multi-cycle instruction (after a tick that stopped at a Defer, or that
\* scheduled the service sequence without running it); an interrupt is never
\* taken in a tick that begins with micro-ops in the queue.
C4_DecodeOnlyOnEmptyQueue ==
  last_op = "cpu_tick"
  => /\ (cpu_obs.event \in {"decode", "service", "wake"} \/ cpu_obs.decoded_cb)
          => cpu_obs.queue_was_empty
     /\ (cpu_obs.deferred \/ cpu_obs.event = "wake") => cpu.instructions # <<>>
     /\ ~cpu_obs.queue_was_empty => cpu_obs.event \notin {"service", "wake"}

\* C4 amended: the first opcode byte of an instruction is fetched and
\* decoded, or an interrupt-service sequence is scheduled, only in a CPU tick
\* that begins with an empty micro-op queue; the second opcode byte of a
\* CB-prefixed instruction is fetched and decoded by DecodeCBInstruction in
\* the instruction's next tick, which begins with a non-empty queue; the
\* queue is non-empty at the start of every later tick of a multi-cycle
\* instruction, and a tick that begins with a non-empty queue only continues
\* the instruction in flight, so an interrupt is never taken between two
\* M-cycles of one instruction.
C4_FirstOpcodeOnlyOnEmptyQueue ==
  last_op = "cpu_tick"
  => /\ cpu_obs.event \in {"decode", "service", "wake"} => cpu_obs.queue_was_empty
     /\ cpu_obs.decoded_cb
          => (~cpu_obs.queue_was_empty /\ cpu_obs.event = "continue" /\ cpu_obs.opcode = 203)
     /\ (cpu_obs.deferred \/ cpu_obs.event = "wake") => cpu.instructions # <<>>
     /\ ~cpu_obs.queue_was_empty => cpu_obs.event = "continue"
     /\ cpu.stopped => cpu.instructions = <<>>

\* The second tick of BIT 7,A: the CB opcode is decoded in a tick that began
\* with DecodeCBInstruction in the queue, and the instruction is complete
C4_Witness ==
  /\ last_op = "cpu_tick"
  /\ cpu_obs.event = "continue"
  /\ ~cpu_obs.queue_was_empty
  /\ cpu_obs.decoded_cb
  /\ cpu_obs.opcode = 203
  /\ cpu.instructions = <<>>
  /\ cpu.f = 160

\* The devices as the bus reads them in the current state
CurrentBus ==
  [cpu |-> cpu, ic |-> ic, mem |-> mem, key1 |-> key1, dma |-> dma, timer |-> timer,
   lcd |-> lcd, fetch |-> <<>>, obs |-> cpu_obs]

RECURSIVE InterruptBits(_)
InterruptBits(S) ==
  IF S = {} THEN 0
  ELSE LET i == CHOOSE i \in S : TRUE
       IN  BitOr(Pow2(interrupt_get_bit(i)), InterruptBits(S \ {i}))

\* What C6 states of the service sequence of cpu_obs.servicing, scheduled with
\* PC = cpu_obs.p and SP = cpu_obs.s: IF, read when ClearInterrupt ran as
\* cpu_obs.if0, has lost the bit of the source and has otherwise only gained
\* the bits that other components requested since; IME is 0; the bytes of p
\* are read back at s-1 and s-2; SP = s-2; PC is the vector.
ServiceSequenceEffects ==
  LET x == interrupt_get_bit(cpu_obs.servicing)
      s1 == wrapping_sub16(cpu_obs.s, 1)
      s2 == wrapping_sub16(cpu_obs.s, 2)
  IN  /\ get_bit(cpu_obs.if0, x)
      /\ bus_read(CurrentBus, 65295)
           = BitOr(reset_bit(cpu_obs.if0, x), InterruptBits(cpu_obs.requested_meanwhile))
      /\ ~ic.interrupt_master_enable
      /\ bus_read(CurrentBus, s1) = get_upper_byte(cpu_obs.p)
      /\ bus_read(CurrentBus, s2) = get_lower_byte(cpu_obs.p)
      /\ cpu.sp = s2
      /\ cpu.pc = 64 + 8 * x
      /\ cpu.pc = get_routine_address(cpu_obs.servicing)

\* C6 as stated: when the CPU services interrupt source X with PC = p and
\* SP = s, then once the service sequence has run IF bit X is cleared and no
\* other IF bit has been changed by the sequence, IME is 0, the high byte of p
\* is stored at s-1 and the low byte at s-2, SP = s-2 and PC is the vector of X.
C6_ServiceSequence == cpu_obs.completed => ServiceSequenceEffects

\* C6 amended: the same, when s-1 and s-2 (modulo 2^16) are addresses of work
\* RAM (C000..DFFF) or high RAM (FF80..FFFE); the two pushes are bus writes,
\* so with s-1 or s-2 at a register the register is written instead.
C6_ServiceSequenceOnRamStack ==
  (/\ cpu_obs.completed
   /\ wrapping_sub16(cpu_obs.s, 1) \in WorkRam \cup HighRam
   /\ wrapping_sub16(cpu_obs.s, 2) \in WorkRam \cup HighRam)
  => ServiceSequenceEffects

\* The service of VerticalBlank with the stack in work RAM, during which the
\* button controller requested ButtonPressed
C6_Witness ==
  /\ cpu_obs.completed
  /\ cpu_obs.servicing = "VerticalBlank"
  /\ cpu_obs.s = 53264
  /\ "ButtonPressed" \in cpu_obs.requested_meanwhile
  /\ mem_read(mem, 53263) = get_upper_byte(cpu_obs.p)
  /\ mem_read(mem, 53262) = get_lower_byte(cpu_obs.p)
  /\ cpu.sp = 53262
  /\ cpu.pc = 64
  /\ get_bit(ic.interrupt_request, 4)
  /\ ~get_bit(ic.interrupt_request, 0)
(***************************************************************************)
(* The mode bits of STAT over whole frames at normal speed: the program    *)
(* writes STAT at any time and switches the LCD off and on during the      *)
(* first lines of a frame.                                                 *)
(***************************************************************************)
STATModeBitSamples == {0, 7}

\* A PPU tick anywhere in the frame, with the LCD on or (at most MaxOffTicks
\* times) off
ModeTick ==
  /\ lcd_enabled(lcd.lcdc) \/ lcd_obs.off_ticks < MaxOffTicks
  /\ FrameTick

\* The program switches the LCD off or on during the first lines of a frame
SwitchLCD(value) ==
  /\ lcd.dot < 4 * MaxStatTicks
  /\ WriteLCDC(value)

NextMode ==
  \/ \E v \in LCDCSamples : SwitchLCD(v)
  \/ \E v \in STATModeBitSamples : WriteSTAT(v)
  \/ ModeTick

SpecMode == Init /\ [][NextMode]_vars

\* The mode of a dot counter value: line = dot / 456, column = dot mod 456
ModeOfDot(dot) ==
  IF dot \div 456 >= 144 THEN "VBlank"
  ELSE IF dot % 456 <= 79 THEN "Mode2"
  ELSE IF dot % 456 <= 247 THEN "Mode3"
  ELSE "HBlank"

ModeBits(mode) ==
  CASE mode = "HBlank" -> 0
    [] mode = "VBlank" -> 1
    [] mode = "Mode2" -> 2
    [] mode = "Mode3" -> 3

\* C11 as stated: after every PPU tick, bits 1..0 of STAT equal the mode
\* computed from the current dot counter, and no CPU write to STAT changes
\* those bits.
C11_StatMirrorsDotMode ==
  /\ last_op = "lcd_tick" => lcd.stat % 4 = ModeBits(ModeOfDot(lcd.dot))
  /\ lcd.stat % 4 = ModeBits(lcd.mode)

\* C11: after every PPU tick with the LCD enabled, bits 1..0 of STAT equal
\* the mode computed from the current dot counter (line = dot / 456, column =
\* dot mod 456; line >= 144 VBlank, else column <= 79 Mode2, column <= 247
\* Mode3, else HBlank); a PPU tick with the LCD disabled advances the dot
\* counter and keeps the bits; and no CPU write to STAT changes those bits,
\* which equal the controller's mode in every state.
C11_StatMirrorsModeWhileEnabled ==
  /\ (last_op = "lcd_tick" /\ lcd_obs.was_enabled)
       => lcd.stat % 4 = ModeBits(ModeOfDot(lcd.dot))
  /\ (last_op = "lcd_tick" /\ ~lcd_obs.was_enabled)
       => lcd.stat % 4 = ModeBits(lcd_obs.mode_before)
  /\ lcd.stat % 4 = ModeBits(lcd.mode)

\* A write of 7 to STAT during V-Blank leaves the mode bits at 1
C11_Witness ==
  /\ last_op = "write_stat"
  /\ lcd.line >= VBlankLine
  /\ lcd.mode = "VBlank"
  /\ lcd.stat % 4 = 1

(***************************************************************************)
(* PPU ticks with the LCD off, at both speeds: the program enables STAT    *)
(* sources, switches the LCD off and on and switches speed during the      *)
(* first lines of a frame.                                                 *)
(***************************************************************************)
OffSTATSamples == {40}

\* An emulator tick of the first lines in which the speed switches
EarlySpeedSwitchTick ==
  /\ lcd.dot < 4 * MaxStatTicks
  /\ lcd_enabled(lcd.lcdc) \/ lcd_obs.off_ticks < MaxOffTicks
  /\ SpeedSwitchTick

NextOff ==
  \/ \E v \in LCDCSamples : WriteLCDC(v)
  \/ \E v \in OffSTATSamples : WriteSTAT(v)
  \/ ArmSpeedSwitch
  \/ EarlySpeedSwitchTick
  \/ PpuTick

SpecOff == Init /\ [][NextOff]_vars

\* C12: in every PPU tick in which LCDC bit 7 is 0, the dot counter advances
\* by 4 (2 in double speed) modulo 70224 and nothing else changes: the mode,
\* the STAT register, LY, the column, LYC, LCDC and the STAT interrupt line
\* keep their values, no interrupt is requested, no line is drawn and the
\* sink is not flushed.
C12_DisabledTickOnlyAdvancesDot ==
  (last_op = "lcd_tick" /\ ~lcd_obs.was_enabled)
    => /\ lcd.dot = (lcd_obs.before.dot + (IF lcd_obs.double_speed THEN 2 ELSE 4)) % 70224
       /\ lcd = [lcd_obs.before EXCEPT !.dot = lcd.dot]
       /\ lcd.mode = lcd_obs.mode_before
       /\ lcd.line = lcd_obs.ly_before
       /\ lcd.interrupt_line = lcd_obs.line_before
       /\ requested = <<>>
       /\ lcd_obs.draws = 0
       /\ lcd_obs.flushes = 0

\* A tick in double speed with the LCD off, the STAT line held true and the
\* dot counter passing from Mode 2 into Mode 3
C12_Witness ==
  /\ last_op = "lcd_tick"
  /\ ~lcd_obs.was_enabled
  /\ lcd_obs.double_speed
  /\ lcd.interrupt_line
  /\ lcd.dot = lcd_obs.before.dot + 2
  /\ lcd.dot % 456 = 80
  /\ lcd.mode = "Mode2"

(***************************************************************************)
(* Legacy OAM DMA under the CPU that starts it. The program at 0x0100 is   *)
(*   LD A,n ; LDH (0x53),A ; LDH (0x55 or 0x46),A ; LDH (0x46),A ; NOP ... *)
(* and every emulator tick runs the CPU's tick, the speed controller's     *)
(* tick and the DMA controller's tick, which reads any PPU mode.           *)
(***************************************************************************)
MaxIdleTicks == 162

OamProgramEnd == 264 + MaxIdleTicks

\* The bytes of the programs at an address
OamRom(address) ==
  CASE address = 256 -> {62}
    [] address = 257 -> {0, 128, 224}
    [] address = 258 -> {224}
    [] address = 259 -> {83}
    [] address = 260 -> {224}
    [] address = 261 -> {70, 85}
    [] address = 262 -> {224}
    [] address = 263 -> {70}
    [] OTHER -> {0}

\* The bytes the fetches of the next machine cycle read
OamFetchChoices == {<<v, w>> : v \in OamRom(cpu.pc), w \in OamRom(cpu.pc + 1)}

\* Emulator::tick: cpu.tick, speed_controller.tick and dma.tick
OamTick(lcd_mode) ==
  /\ ~panicked
  /\ DecodesNext => cpu.pc < OamProgramEnd
  /\ \E fetch \in OamFetchChoices :
     \E b \in {cpu_tick([cpu |-> cpu, ic |-> ic, mem |-> mem, key1 |-> key1, dma |-> dma,
                           timer |-> timer, lcd |-> lcd, fetch |-> fetch,
                           obs |-> StartObs])} :
       LET r == speed_tick(b.key1, b.cpu)
           ds == double_speed(key1)
           d == dma_tick(b.dma, r.cpu.enabled, lcd_mode, ds)
           wrote_dma == /\ b.dma # dma
                        /\ b.dma.active_transfer.transfer_type = "Legacy"
                        /\ b.dma.active_transfer.bytes_transferred = 0
           since == IF wrote_dma THEN 0 ELSE dma_obs.ticks_since_dma_write
       IN  /\ cpu' = [r.cpu EXCEPT !.enabled = d.cpu_enabled]
           /\ key1' = r.key1
           /\ ic' = b.ic
           /\ mem' = b.mem
           /\ dma' = d.dma
           /\ timer' = b.timer
           /\ lcd' = b.lcd
           /\ panicked' = d.panicked
           /\ cpu_obs' = b.obs
           /\ dma_obs' = [transfer_type |-> b.dma.active_transfer.transfer_type,
                          mode |-> lcd_mode,
                          cpu_enabled |-> r.cpu.enabled,
                          double_speed |-> ds,
                          skipped |-> /\ b.dma.active_transfer.transfer_type
                                           \in {"GeneralPurpose", "HBlank"}
                                      /\ dma_tick_skipped(b.dma, ds),
                          cancel_requested |-> b.dma.cancel_requested,
                          cancel_written |-> dma_obs.cancel_written,
                          writes |-> dma_obs.writes,
                          copy |-> d.copy,
                          ticks_since_dma_write |->
                            IF since \in 0..LegacyLength THEN since + 1 ELSE since]
  /\ requested' = <<>>
  /\ last_op' = "dma_tick"
  /\ UNCHANGED peripherals
  /\ UNCHANGED <<timer_obs, lcd_obs>>

NextOam == \E m \in DmaModeSamples : OamTick(m)

SpecOam == Init /\ [][NextOam]_vars

\* C13: a legacy OAM DMA transfer does not stall the CPU: whenever FF46 has
\* been written, also while an H-Blank or general-purpose transfer has the CPU
\* disabled, the CPU is enabled after every DMA tick in which the legacy
\* transfer copies one of its 160 bytes, and it is enabled after the DMA tick
\* that follows the completion of the transfer.
C13_LegacyDoesNotStallCpu ==
  /\ (AfterDmaTick /\ dma_obs.transfer_type = "Legacy") => cpu.enabled
  /\ (AfterDmaTick /\ dma_obs.transfer_type = "Inactive") => cpu.enabled

\* The number of DMA ticks since the last write to FF46, after such a tick
LegacyTick == IF last_op = "dma_tick" THEN dma_obs.ticks_since_dma_write ELSE -1

\* What the k-th DMA tick after a write of dma.dma to FF46 does
LegacyTickCopies(k) ==
  /\ ~panicked
  /\ dma_obs.transfer_type = "Legacy"
  /\ dma_obs.copy = <<dma.dma * 256 + (k - 1), 65024 + (k - 1)>>
  /\ dma.active_transfer.transfer_type = (IF k = 160 THEN "Inactive" ELSE "Legacy")

C33_DisabledCpuDoesNothing ==
  (last_op = "dma_tick" /\ ~cpu_obs.was_enabled) =>
    (cpu_obs.event = "disabled" /\ cpu_obs.accesses = <<>>)

\* C37: whatever the program writes to FF46 and FF51..FF55, no DMA tick reads
\* or writes an address the DMA bus does not route: no tick terminates the
\* emulator.
C37_NoDmaTickPanics == last_op = "dma_tick" => ~panicked
(***************************************************************************)
(* FF55 during a general-purpose transfer, over SpecDMA.                   *)
(***************************************************************************)
\* The 16-byte lines of the active transfer not yet completely transferred
LinesRemaining(d) ==
  (d.active_transfer.bytes_to_transfer - d.active_transfer.bytes_transferred + 15) \div 16

\* C15: while a general-purpose DMA transfer is in progress (after each DMA
\* tick that leaves bytes to copy) a read of FF55 returns the count of 16-byte lines still to be transferred (the count
\* itself, or the count minus one as FF55 encodes lengths), and after the
\* DMA tick that copies the last byte FF55 reads 0xFF.
C15_HDMA5ReadsRemainingLines ==
  /\ (AfterDmaTick /\ dma.active_transfer.transfer_type = "GeneralPurpose")
       => dma_read_hdma5(dma) \in {LinesRemaining(dma), LinesRemaining(dma) - 1}
  /\ (/\ AfterDmaTick
      /\ dma_obs.transfer_type = "GeneralPurpose"
      /\ dma.active_transfer.transfer_type = "Inactive")
       => dma_read_hdma5(dma) = 255


\* C34: whenever no general-purpose or H-Blank transfer is in progress (the
\* active transfer is Inactive or Legacy) a read of FF55 has bit 7 set; so a
\* read of FF55 with bit 7 clear means such a transfer is in progress.
C34_HDMA5Bit7SetWhenIdle ==
  dma.active_transfer.transfer_type \in {"Inactive", "Legacy"}
    => get_bit(dma_read_hdma5(dma), 7)
(***************************************************************************)
(* The stopped CPU, over SpecCPU.                                          *)
(***************************************************************************)
\* The last CPU tick began with the stopped flag set
TickOfStoppedCpu == last_op = "cpu_tick" /\ cpu_obs.before # <<>>

\* The CPU after the CPU's own tick: the DMA tick of the same emulator tick
\* has set the enabled flag since
SameCpuButEnabled(c, d) == [c EXCEPT !.enabled = d.enabled] = d

\* C16: while the CPU's stopped flag is set, a CPU tick executes no micro-op,
\* fetches no opcode and changes no register or memory; the CPU clears the
\* flag only in (and in every) tick in which the requested-interrupt backdoor
\* reports ButtonPressed, and in that tick it schedules the interrupt-service
\* sequence without executing any of it.
C16_StoppedCpuDoesNothing ==
  TickOfStoppedCpu
    => LET c0 == cpu_obs.before.cpu
           reported == get_requested_interrupt(cpu_obs.before.ic)
       IN  /\ cpu_obs.event \in {"stopped", "wake"}
           /\ cpu_obs.opcode = -1 \/ cpu_obs.event = "stopped"
           /\ mem = cpu_obs.before.mem
           /\ ic = request_all(cpu_obs.before.ic, requested)
           /\ cpu_obs.event = "stopped"
                => /\ reported # "ButtonPressed"
                   /\ cpu.stopped
                   /\ SameCpuButEnabled(cpu, c0)
           /\ cpu_obs.event = "wake"
                => /\ reported = "ButtonPressed"
                   /\ ~cpu.stopped
                   /\ cpu.instructions =
                        c0.instructions \o schedule_call_interrupt_routine("ButtonPressed")
                   /\ SameCpuButEnabled(
                        cpu, [c0 EXCEPT !.stopped = FALSE,
                                        !.instructions = cpu.instructions])

\* A stopped CPU is woken by ButtonPressed: the flag is cleared and the
\* service sequence is queued, with PC where STOP left it
C16_Witness ==
  /\ TickOfStoppedCpu
  /\ cpu_obs.event = "wake"
  /\ ~cpu.stopped
  /\ cpu.instructions # <<>>
  /\ cpu.pc = cpu_obs.before.cpu.pc

(***************************************************************************)
(* The speed switch under the CPU that arms it. The program at 0x0100      *)
(* repeats  LD A,n ; LDH (0x4D),A ; STOP or NOP  and every emulator tick   *)
(* runs the CPU's tick and then the speed controller's tick.               *)
(***************************************************************************)
MaxSpeedRounds == 5

SpeedProgramEnd == 256 + 5 * MaxSpeedRounds

\* The bytes of the programs at an address
SpeedRom(address) ==
  CASE (address - 256) % 5 = 0 -> {62}
    [] (address - 256) % 5 = 1 -> {1, 128, 129}
    [] (address - 256) % 5 = 2 -> {224}
    [] (address - 256) % 5 = 3 -> {77}
    [] (address - 256) % 5 = 4 -> {0, 16}

SpeedFetchChoices == {<<v, w>> : v \in SpeedRom(cpu.pc), w \in SpeedRom(cpu.pc + 1)}

\* Emulator::tick: cpu.tick and speed_controller.tick; the history keeps KEY1
\* before the CPU's tick and KEY1 and the stopped flag as the speed controller
\* finds them
SpeedTick ==
  /\ ~panicked
  /\ DecodesNext => cpu.pc < SpeedProgramEnd
  /\ \E fetch \in SpeedFetchChoices :
     \E b \in {cpu_tick([cpu |-> cpu, ic |-> ic, mem |-> mem, key1 |-> key1, dma |-> dma,
                           timer |-> timer, lcd |-> lcd, fetch |-> fetch,
                           obs |-> StartObs])} :
       LET r == speed_tick(b.key1, b.cpu)
       IN  /\ cpu' = r.cpu
           /\ key1' = r.key1
           /\ ic' = b.ic
           /\ mem' = b.mem
           /\ dma' = b.dma
           /\ timer' = b.timer
           /\ lcd' = b.lcd
           /\ cpu_obs' = [b.obs EXCEPT !.speed = [key1_before |-> key1,
                                                  key1_seen |-> b.key1,
                                                  stopped_seen |-> b.cpu.stopped]]
  /\ requested' = <<>>
  /\ last_op' = "speed_tick"
  /\ UNCHANGED peripherals
  /\ UNCHANGED <<panicked, dma_obs, timer_obs, lcd_obs>>

NextSpeed == SpeedTick

SpecSpeed == Init /\ [][NextSpeed]_vars

\* C17: the double-speed flag (KEY1 bit 7) is toggled in exactly those ticks
\* in which the speed controller finds the CPU stopped with KEY1 bit 0 set;
\* in such a tick bit 0 is cleared and the CPU is resumed, in every other
\* tick the speed controller changes nothing, and no CPU write to KEY1
\* changes bit 7.
C17_SpeedTogglesOnArmedStop ==
  last_op = "speed_tick"
    => LET s == cpu_obs.speed
           armed_stop == s.stopped_seen /\ get_bit(s.key1_seen, 0)
       IN  /\ (get_bit(key1, 7) # get_bit(s.key1_seen, 7)) <=> armed_stop
           /\ armed_stop => (~get_bit(key1, 0) /\ ~cpu.stopped)
           /\ ~armed_stop => (key1 = s.key1_seen /\ cpu.stopped = s.stopped_seen)
           /\ get_bit(s.key1_seen, 7) = get_bit(s.key1_before, 7)
           /\ key1 % 128 \in {0, 1}

\* The second switch, back to normal speed: bit 0 was written while bit 7 was
\* set, and STOP found KEY1 = 0x81
C17_Witness ==
  /\ last_op = "speed_tick"
  /\ cpu_obs.speed.stopped_seen
  /\ cpu_obs.speed.key1_seen = 129
  /\ key1 = 0
  /\ ~cpu.stopped
  /\ cpu_obs.opcode = 16

(***************************************************************************)
(* Instruction timing: the CPU, always enabled and with no interrupt       *)
(* pending, runs programs of MaxTimingInstructions instructions.           *)
(***************************************************************************)
MaxTimingInstructions == 3

\* NOP, LD (nn),SP, LD SP,nn, LD A,n, JP NZ,nn, JP Z,nn, the CB prefix,
\* JP NC,nn, JP C,nn, LDH (n),A
TimingOpcodeSamples == {0, 8, 49, 62, 194, 202, 203, 210, 218, 224}

BranchingOpcodes == {194, 202, 210, 218}

TimingFetchChoices ==
  IF DecodesNext THEN {<<v>> : v \in TimingOpcodeSamples}
  ELSE IF ~cpu.stopped /\ cpu.instructions # <<>>
  THEN cycle_fetches(cpu.instructions, cpu_obs.opcode)
  ELSE {<<>>}

\* Emulator::tick as the CPU sees it: cpu.tick and speed_controller.tick
TimingTick ==
  /\ ~panicked
  /\ DecodesNext => cpu_obs.count < MaxTimingInstructions
  /\ \E fetch \in TimingFetchChoices :
     \E b \in {cpu_tick([cpu |-> cpu, ic |-> ic, mem |-> mem, key1 |-> key1, dma |-> dma,
                           timer |-> timer, lcd |-> lcd, fetch |-> fetch,
                           obs |-> StartObs])} :
       LET r == speed_tick(b.key1, b.cpu)
       IN  /\ cpu' = r.cpu
           /\ key1' = r.key1
           /\ ic' = b.ic
           /\ mem' = b.mem
           /\ dma' = b.dma
           /\ timer' = b.timer
           /\ lcd' = b.lcd
           /\ cpu_obs' = b.obs
  /\ requested' = <<>>
  /\ last_op' = "cpu_tick"
  /\ UNCHANGED peripherals
  /\ UNCHANGED <<panicked, dma_obs, timer_obs, lcd_obs>>

NextTiming == TimingTick

SpecTiming == Init /\ [][NextTiming]_vars

\* The last tick was a tick of the instruction whose opcode is cpu_obs.opcode
InstructionTick ==
  /\ last_op = "cpu_tick"
  /\ cpu_obs.event \in {"decode", "continue"}
  /\ cpu_obs.opcode # -1

\* The last tick left the micro-op queue empty: the instruction is complete
\* after cpu_obs.cycles ticks
InstructionCompleted == InstructionTick /\ cpu.instructions = <<>>

\* The M-cycle counts of the opcodes as documented for the CPU
DocumentedCycles(opcode) ==
  CASE opcode = 0 -> 1
    [] opcode = 8 -> 5
    [] opcode = 16 -> 1
    [] opcode = 49 -> 3
    [] opcode = 62 -> 2
    [] opcode = 203 -> 2
    [] opcode = 224 -> 3
    [] opcode = 243 -> 1
    [] opcode = 251 -> 1

\* C18: for every non-branching opcode, the number of CPU ticks from the tick
\* that fetches the opcode until the micro-op queue is empty equals the
\* opcode's documented M-cycle count (NOP 1, LD r,n 2, BIT b,r 2, LDH (n),A 3,
\* LD rr,nn 3, LD (nn),SP 5).
C18_CyclesMatchDocumented ==
  (InstructionCompleted /\ cpu_obs.opcode \notin BranchingOpcodes)
    => cpu_obs.cycles = DocumentedCycles(cpu_obs.opcode)

\* C19: LD (nn),SP takes exactly 5 ticks from opcode fetch to empty queue,
\* after which SP's low byte is at nn and its high byte at nn + 1, and no tick
\* of the instruction performs more than one bus access (opcode fetch, fetch
\* of an immediate byte, write of a byte of SP).
C19_LdNnSpFiveTicksOneAccessEach ==
  (InstructionTick /\ cpu_obs.opcode = 8)
    => /\ Len(cpu_obs.accesses) <= 1
       /\ InstructionCompleted
            => /\ cpu_obs.cycles = 5
               /\ mem_read(mem, 49407) = get_lower_byte(cpu.sp)
               /\ mem_read(mem, 49408) = get_upper_byte(cpu.sp)

\* The condition cc of JP cc,nn (NZ, Z, NC, C) on the flags f
ConditionHolds(opcode, f) ==
  CASE opcode = 194 -> ~get_bit(f, 7)
    [] opcode = 202 -> get_bit(f, 7)
    [] opcode = 210 -> ~get_bit(f, 4)
    [] opcode = 218 -> get_bit(f, 4)

\* C20: JP cc,nn completes in exactly 3 ticks when the condition is false and
\* in exactly 4 ticks when it is true. When it is false, the third tick leaves
\* the queue empty (the failing BranchIfXxx has removed the queued micro-ops
\* up to and including EndBranch), PC is the address after the 3-byte
\* instruction and the move to PC has not run; when it is true, the third
\* tick leaves the move to PC and EndBranch queued and the fourth sets PC to
\* nn.
C20_ConditionalJumpTiming ==
  (InstructionTick /\ cpu_obs.opcode \in BranchingOpcodes)
    => LET taken == ConditionHolds(cpu_obs.opcode, cpu.f)
       IN  /\ cpu_obs.cycles <= (IF taken THEN 4 ELSE 3)
           /\ InstructionCompleted <=> (cpu_obs.cycles = (IF taken THEN 4 ELSE 3))
           /\ (InstructionCompleted /\ ~taken)
                => cpu.pc = wrapping_add16(cpu_obs.start_pc, 3)
           /\ (InstructionCompleted /\ taken) => cpu.pc = 336
           /\ (cpu_obs.cycles = 3 /\ taken)
                => /\ cpu.instructions =
                        <<MoveWord("AddressBuffer", "PC", 0), Instr("EndBranch", "", "", 0)>>
                   /\ cpu.pc = wrapping_add16(cpu_obs.start_pc, 3)

\* JP C,nn with the carry flag clear is complete after its third tick, with
\* PC after the instruction
C20_Witness ==
  /\ InstructionCompleted
  /\ cpu_obs.opcode = 218
  /\ ~get_bit(cpu.f, 4)
  /\ cpu_obs.cycles = 3
  /\ cpu.pc = cpu_obs.start_pc + 3
  /\ cpu.address_buffer = 336

(***************************************************************************)
(* Register F and the flags of SP + e. The program at 0x0100 is            *)
(*   LD A,n ; LDH (0x80),A ; LD SP,nn ; POP AF or ADD SP,e or LD HL,SP+e   *)
(* and every tick runs the CPU's tick.                                     *)
(***************************************************************************)
AluProgramEnd == 256 + 8

\* The bytes of the programs at an address
AluRom(address) ==
  CASE address = 256 -> {62}
    [] address = 257 -> {31, 240, 255}
    [] address = 258 -> {224}
    [] address = 259 -> {128}
    [] address = 260 -> {49}
    [] address = 261 -> {5, 128, 248}
    [] address = 262 -> {0, 15, 255}
    [] address = 263 -> {232, 241, 248}
    [] address = 264 -> {1, 7, 8, 128, 253, 255}
    [] OTHER -> {0}

AluFetchChoices == {<<v, w>> : v \in AluRom(cpu.pc), w \in AluRom(cpu.pc + 1)}

\* Emulator::tick as the CPU sees it; the history keeps SP as the instruction
\* found it and the immediate byte e its second tick fetched
AluTick ==
  /\ ~panicked
  /\ DecodesNext => cpu.pc < AluProgramEnd
  /\ \E fetch \in AluFetchChoices :
     \E b \in {cpu_tick([cpu |-> cpu, ic |-> ic, mem |-> mem, key1 |-> key1, dma |-> dma,
                           timer |-> timer, lcd |-> lcd, fetch |-> fetch,
                           obs |-> StartObs])} :
       /\ cpu' = b.cpu
       /\ key1' = b.key1
       /\ ic' = b.ic
       /\ mem' = b.mem
       /\ dma' = b.dma
       /\ timer' = b.timer
       /\ lcd' = b.lcd
       /\ cpu_obs' = [b.obs EXCEPT !.before =
                        IF b.obs.event = "decode" THEN [sp |-> cpu.sp, e |-> -1]
                        ELSE IF b.obs.cycles = 2 THEN [cpu_obs.before EXCEPT !.e = fetch[1]]
                        ELSE cpu_obs.before]
  /\ requested' = <<>>
  /\ last_op' = "cpu_tick"
  /\ UNCHANGED peripherals
  /\ UNCHANGED <<panicked, dma_obs, timer_obs, lcd_obs>>

NextAlu == AluTick

SpecAlu == Init /\ [][NextAlu]_vars

\* C21: after any sequence of executed instructions, bits 3..0 of register F
\* are zero, also after POP AF with an arbitrary byte on the stack.
C21_FlagLowNibbleZero == cpu.f % 16 = 0

\* C22: when ADD SP,e or LD HL,SP+e completes, Z = 0, N = 0, H is the carry
\* out of bit 3 and C the carry out of bit 7 of the unsigned sum of the low
\* byte of SP (as the instruction found it) and the byte e.
C22_SpPlusEFlagsFromLowByte ==
  (InstructionCompleted /\ cpu_obs.opcode \in {232, 248})
    => LET sp == cpu_obs.before.sp
           e == cpu_obs.before.e
       IN  cpu.f \div 16 = (IF (sp % 16) + (e % 16) > 15 THEN 2 ELSE 0)
                             + (IF (sp % 256) + e > 255 THEN 1 ELSE 0)

(***************************************************************************)
(* ButtonControllerImpl (internal/controllers/buttons.rs): the two button  *)
(* registers, P1 (0xFF00) and the deferred interrupt.                      *)
(***************************************************************************)
MaxButtonOps == 4

ButtonSamples == {"A", "START", "RIGHT"}

P1Samples == {0, 16, 32, 48}

button_index(button) ==
  CASE button \in {"A", "RIGHT"} -> 0
    [] button \in {"B", "LEFT"} -> 1
    [] button \in {"SELECT", "UP"} -> 2
    [] button \in {"START", "DOWN"} -> 3

button_type(button) ==
  IF button \in {"A", "B", "SELECT", "START"} THEN "ACTION" ELSE "DIRECTION"

\* ButtonRegister::press_button requesting on every press of an enabled group
register_press_button_every_call(r, button) ==
  [r |-> [r EXCEPT !.buttons_pressed_flags = set_bit(r.buttons_pressed_flags, button_index(button))],
   requests |-> IF r.buttons_enabled THEN <<"ButtonPressed">> ELSE <<>>]

\* ButtonRegister::press_button
register_press_button(r, button) ==
  LET old_buttons_pressed_flags == r.buttons_pressed_flags
      flags == set_bit(r.buttons_pressed_flags, button_index(button))
  IN  [r |-> [r EXCEPT !.buttons_pressed_flags = flags],
       requests |-> IF r.buttons_enabled /\ old_buttons_pressed_flags # flags
                    THEN <<"ButtonPressed">> ELSE <<>>]

\* ButtonRegister::release_button
register_release_button(r, button) ==
  [r EXCEPT !.buttons_pressed_flags = reset_bit(r.buttons_pressed_flags, button_index(button))]

\* ButtonRegister::buttons_enabled arming the deferred interrupt on every
\* selection of a group with a button held
buttons_enabled_on_every_selection(r, enabled) ==
  [r EXCEPT !.deferred_interrupt = r.deferred_interrupt
                                     \/ (enabled /\ r.buttons_pressed_flags # 0),
            !.buttons_enabled = enabled]

\* ButtonRegister::buttons_enabled
buttons_enabled(r, enabled) ==
  [r EXCEPT !.deferred_interrupt = r.deferred_interrupt
                                     \/ (enabled /\ ~r.buttons_enabled
                                           /\ r.buttons_pressed_flags # 0),
            !.buttons_enabled = enabled]

\* ButtonRegister::pressed_buttons leaving the bit of the selected group set
pressed_buttons_without_select_bit(r) ==
  IF r.buttons_enabled THEN BitAnd(255 - r.buttons_pressed_flags, 63) ELSE 63

\* ButtonRegister::pressed_buttons
pressed_buttons(r) ==
  IF r.buttons_enabled
  THEN reset_bit(BitAnd(255 - r.buttons_pressed_flags, 63), r.button_enabled_bit)
  ELSE 63

\* ButtonControllerImpl::tick
button_tick(c) ==
  IF c.action_buttons_register.deferred_interrupt
       \/ c.direction_buttons_register.deferred_interrupt
  THEN [c |-> [c EXCEPT !.action_buttons_register.deferred_interrupt = FALSE,
                        !.direction_buttons_register.deferred_interrupt = FALSE],
        requests |-> <<"ButtonPressed">>]
  ELSE [c |-> c, requests |-> <<>>]

\* ButtonControllerImpl::press_button
press_button(c, button) ==
  IF button_type(button) = "ACTION"
  THEN LET r == register_press_button(c.action_buttons_register, button)
       IN  [c |-> [c EXCEPT !.action_buttons_register = r.r], requests |-> r.requests]
  ELSE LET r == register_press_button(c.direction_buttons_register, button)
       IN  [c |-> [c EXCEPT !.direction_buttons_register = r.r], requests |-> r.requests]

\* ButtonControllerImpl::release_button
release_button(c, button) ==
  IF button_type(button) = "ACTION"
  THEN [c EXCEPT !.action_buttons_register = register_release_button(@, button)]
  ELSE [c EXCEPT !.direction_buttons_register = register_release_button(@, button)]

\* Memory::read of P1
button_read(c) ==
  BitOr(192, BitAnd(pressed_buttons(c.action_buttons_register),
                    pressed_buttons(c.direction_buttons_register)))

\* Memory::write of P1
button_write(c, value) ==
  LET c1 == [c EXCEPT !.direction_buttons_register = buttons_enabled(@, ~get_bit(value, 4))]
  IN  [c1 EXCEPT !.action_buttons_register = buttons_enabled(@, ~get_bit(value, 5))]

\* The group the value written to P1 selects: bit 5 clear selects the action
\* buttons, bit 4 clear the direction buttons
Selects(value, group) ==
  IF group = "ACTION" THEN ~get_bit(value, 5) ELSE ~get_bit(value, 4)

\* One operation on the button controller; the history keeps the buttons
\* held, the last value written to P1, whether a group was selected with a
\* button held since the last tick, and the operations in order
ButtonStep(c, reqs, entry, held, p1, armed) ==
  /\ Len(button_obs.log) < MaxButtonOps
  /\ buttons' = c
  /\ ic' = request_all(ic, reqs)
  /\ requested' = reqs
  /\ button_obs' = [held |-> held, p1 |-> p1, armed |-> armed,
                    was_armed |-> button_obs.armed,
                    held_before |-> button_obs.held,
                    log |-> Append(button_obs.log, entry),
                    requests |-> button_obs.requests + Len(reqs),
                    before |-> buttons]
  /\ last_op' = entry.op
  /\ UNCHANGED <<cpu, mem, key1, dma, timer, lcd, oam, audio, audio_obs, rom, rom_obs, panicked, cpu_obs, dma_obs,
                 timer_obs, lcd_obs>>

\* Emulator::press_button
PressButton(button) ==
  LET r == press_button(buttons, button)
  IN  ButtonStep(r.c, r.requests, [op |-> "press_button", button |-> button, value |-> 0],
                 button_obs.held \cup {button}, button_obs.p1, button_obs.armed)

\* Emulator::release_button
ReleaseButton(button) ==
  ButtonStep(release_button(buttons, button), <<>>,
             [op |-> "release_button", button |-> button, value |-> 0],
             button_obs.held \ {button}, button_obs.p1, button_obs.armed)

\* A write of the running program to P1
WriteP1(value) ==
  ButtonStep(button_write(buttons, value), <<>>,
             [op |-> "write_p1", button |-> "", value |-> value],
             button_obs.held, value,
             button_obs.armed
               \/ \E g \in {"ACTION", "DIRECTION"} :
                    /\ Selects(value, g)
                    /\ ~Selects(button_obs.p1, g)
                    /\ \E b \in button_obs.held : button_type(b) = g)

\* The button controller's tick in Emulator::tick
ButtonTick ==
  LET r == button_tick(buttons)
  IN  ButtonStep(r.c, r.requests, [op |-> "button_tick", button |-> "", value |-> 0],
                 button_obs.held, button_obs.p1, FALSE)

NextButtons ==
  \/ \E button \in ButtonSamples : PressButton(button)
  \/ \E button \in ButtonSamples : ReleaseButton(button)
  \/ \E value \in P1Samples : WriteP1(value)
  \/ ButtonTick

SpecButtons == Init /\ [][NextButtons]_vars

\* The button of the last press_button call
PressedButton == button_obs.log[Len(button_obs.log)].button

\* C23 as stated: every press_button call made while the button's group is
\* selected requests ButtonPressed in the call, and a press made while the
\* group is not selected requests nothing.
C23_EveryEnabledPressRequests ==
  last_op = "press_button"
    => requested = IF Selects(button_obs.p1, button_type(PressedButton))
                   THEN <<"ButtonPressed">> ELSE <<>>

\* C23: a press_button call requests ButtonPressed, once and in the call, if
\* and only if the button's group is selected and the button was not already
\* held (pressed without a release since); a press made while the group is
\* not selected, and a repeated press of a held button, request nothing.
C23_EnabledPressOfReleasedButtonRequests ==
  last_op = "press_button"
    => requested = IF /\ Selects(button_obs.p1, button_type(PressedButton))
                      /\ PressedButton \notin button_obs.held_before
                   THEN <<"ButtonPressed">> ELSE <<>>

\* START is pressed while A is held and the action buttons are selected
C23_Witness ==
  /\ last_op = "press_button"
  /\ PressedButton = "START"
  /\ button_obs.held_before = {"A"}
  /\ Selects(button_obs.p1, "ACTION")
  /\ requested = <<"ButtonPressed">>

\* C24: a write to P1 requests nothing; the button controller's tick requests
\* ButtonPressed exactly once if, since the previous tick, a write to P1
\* selected a group that was not selected while a button of that group was
\* held, and requests nothing otherwise.
C24_DeferredInterruptOnNextTick ==
  /\ last_op = "write_p1" => requested = <<>>
  /\ last_op = "button_tick"
       => requested = IF button_obs.was_armed THEN <<"ButtonPressed">> ELSE <<>>

\* A was pressed while no group was selected, the action buttons were then
\* selected, and the tick after the write makes the only request so far
C24_Witness ==
  /\ button_obs.log = <<[op |-> "press_button", button |-> "A", value |-> 0],
                        [op |-> "button_tick", button |-> "", value |-> 0],
                        [op |-> "write_p1", button |-> "", value |-> 16],
                        [op |-> "button_tick", button |-> "", value |-> 0]>>
  /\ requested = <<"ButtonPressed">>
  /\ button_obs.requests = 1

\* P1 := 0x10, then A pressed, from the initial state
SelectActionPressA ==
  button_obs.log = <<[op |-> "write_p1", button |-> "", value |-> 16],
                     [op |-> "press_button", button |-> "A", value |-> 0]>>

\* C25 as stated: after writing 0x10 to P1 and pressing only A, one
\* ButtonPressed request has been made and P1 reads 0xD6.
C25_PressAReads0xD6 ==
  SelectActionPressA => (button_obs.requests = 1 /\ button_read(buttons) = 214)

\* C25: P1 reads 0xFF initially; after writing 0x10 to P1 and pressing only
\* A, one ButtonPressed request has been made and P1 reads 0xDE (bits 7, 6
\* and 4 set, bit 5 clear, bit 0 low for A); after pressing START as well, two
\* requests have been made and P1 reads 0xD6.
C25_PressAReads0xDE ==
  /\ button_obs.log = <<>> => button_read(buttons) = 255
  /\ SelectActionPressA => (button_obs.requests = 1 /\ button_read(buttons) = 222)
  /\ button_obs.log = <<[op |-> "write_p1", button |-> "", value |-> 16],
                        [op |-> "press_button", button |-> "A", value |-> 0],
                        [op |-> "press_button", button |-> "START", value |-> 0]>>
       => (button_obs.requests = 2 /\ button_read(buttons) = 214)

C25_Witness ==
  /\ SelectActionPressA
  /\ button_obs.requests = 1
  /\ button_read(buttons) = 222
  /\ get_bit(ic.interrupt_request, 4)

(***************************************************************************)
(* The OAM scan of Mode 2. The program fills OAM during an H-Blank or      *)
(* V-Blank period, in which the PPU reads no object, and may switch speed  *)
(* near the start of the frame.                                            *)
(***************************************************************************)
MaxScanLines == 3

\* The y bytes the program writes: every object on lines 1..8; four objects,
\* the last two among them, on lines 1..8; objects on lines 0..1, on lines
\* 2..9 and off the screen in turn
OamLayoutSamples ==
  {[i \in 0..39 |-> 17],
   [i \in 0..39 |-> IF i \in {1, 5, 38, 39} THEN 17 ELSE 0],
   [i \in 0..39 |-> CASE i % 3 = 0 -> 18 [] i % 3 = 1 -> 10 [] OTHER -> 200]}

\* The program's writes to OAM, all of them within one H-Blank or V-Blank
LoadOam(layout) ==
  /\ ~panicked
  /\ lcd.mode \in {"HBlank", "VBlank"}
  /\ oam = OAMImpl_new
  /\ oam' = layout
  /\ requested' = <<>>
  /\ last_op' = "load_oam"
  /\ UNCHANGED <<ic, cpu, mem, key1, dma, timer, lcd, buttons, audio, audio_obs, rom, rom_obs, panicked, cpu_obs, dma_obs,
                 timer_obs, lcd_obs, button_obs>>

ScanTick ==
  /\ lcd.dot < MaxScanLines * DotsPerLine
  /\ FrameTick

NextScan ==
  \/ ArmSpeedSwitch
  \/ SpeedSwitchTick
  \/ \E layout \in OamLayoutSamples : LoadOam(layout)
  \/ ScanTick

SpecScan == Init /\ [][NextScan]_vars

\* An object with y byte y covers line L of the screen
Intersects(y, L, height) == y <= L + 16 /\ y + height > L + 16

\* The first n objects, in OAM order from object i, that cover line L
RECURSIVE FirstIntersecting(_, _, _)
FirstIntersecting(i, n, L) ==
  IF i > 39 \/ n = 0 THEN <<>>
  ELSE IF Intersects(oam[i], L, IF use_8_x_16_tiles(lcd.lcdc) THEN 16 ELSE 8)
  THEN <<i>> \o FirstIntersecting(i + 1, n - 1, L)
  ELSE FirstIntersecting(i + 1, n, L)

ScannedObjects ==
  [k \in 1..Len(lcd.intersecting_object_references) |->
     lcd.intersecting_object_references[k].object_index]

\* C26: by the end of Mode 2 of every visible line L (in every tick of
\* Mode 3 that follows it) the scanline's object list holds exactly the first
\* min(10, k) of the k objects that cover L, in OAM order; at no time does it
\* hold more than 10 entries or an object that does not cover the line being
\* scanned or rendered.
C26_ScanCollectsFirstTenOfLine ==
  /\ Len(lcd.intersecting_object_references) <= 10
  /\ \A k \in 1..Len(ScannedObjects) :
       Intersects(oam[ScannedObjects[k]], lcd.line, IF use_8_x_16_tiles(lcd.lcdc) THEN 16 ELSE 8)
  /\ (last_op = "lcd_tick" /\ lcd_obs.was_enabled /\ lcd.mode = "Mode3")
       => ScannedObjects = FirstIntersecting(0, 10, lcd.line)

\* The scan with the dot counter a multiple of 4 in normal speed
C26_AlignedScan ==
  (double_speed(key1) \/ lcd.dot % 4 = 0) => C26_ScanCollectsFirstTenOfLine


(***************************************************************************)
(* The APU (controllers/audio.rs) and its channel components.  A call of   *)
(* the audio driver is kept as <<command, channel>>; the operators below   *)
(* thread s = [a |-> the controller, cmds |-> the driver calls made so     *)
(* far in this tick, steps |-> the frame-sequencer events of this tick].   *)
(***************************************************************************)
NR10 == 65296
NR11 == 65297
NR12 == 65298
NR14 == 65300
NR21 == 65302
NR22 == 65303
NR24 == 65305
NR30 == 65306
NR31 == 65307
NR32 == 65308
NR34 == 65310
NR41 == 65312
NR42 == 65313
NR44 == 65315
NR51 == 65317
NR52 == 65318

Emit(s, command, channel) == [s EXCEPT !.cmds = Append(@, <<command, channel>>)]

\* LengthTimer::tick
LengthTimer_tick(l) ==
  IF l.counting /\ l.enabled
  THEN LET current_value == IF l.current_value = 0 THEN 0 ELSE l.current_value - 1
       IN  [timer |-> [l EXCEPT !.current_value = current_value],
            result |-> IF current_value = 0 THEN "Expired" ELSE "Ok"]
  ELSE [timer |-> l, result |-> "Ok"]

\* LengthTimer::trigger
LengthTimer_trigger(l) ==
  [l EXCEPT !.current_settings = l.new_settings,
            !.current_value = l.max_value - l.new_settings.initial_value,
            !.counting = TRUE]

\* GainController::dac_shut_off
dac_shut_off(g) == g.current_settings.initial_value = 0 /\ ~g.current_settings.ascending

\* GainController::tick; set_gain tells whether the driver's set_gain is called
GainController_tick(g) ==
  IF dac_shut_off(g)
  THEN [controller |-> g, set_gain |-> FALSE, result |-> "DacShutOff"]
  ELSE LET pace == g.current_settings.pace
           current_tick == (g.current_tick + 1) % pace
           current_value ==
             IF current_tick # 0 THEN g.current_value
             ELSE IF g.current_settings.ascending /\ g.current_value < 15
                  THEN g.current_value + 1
             ELSE IF ~g.current_settings.ascending /\ g.current_value > 0
                  THEN g.current_value - 1
             ELSE g.current_value
       IN  [controller |-> IF g.active /\ pace # 0
                           THEN [g EXCEPT !.current_tick = current_tick,
                                          !.current_value = current_value]
                           ELSE g,
            set_gain |-> TRUE, result |-> "Ok"]

\* GainController::trigger
GainController_trigger(g) ==
  [g EXCEPT !.current_settings = g.new_settings, !.current_tick = 0,
            !.current_value = g.new_settings.initial_value, !.active = TRUE]

\* PulsePlayer::wavelength_overflowed
wavelength_overflowed(p) == p.wavelength > 2047

\* PulsePlayer::tick; play tells whether the driver's play_pulse is called
PulsePlayer_tick(p) ==
  LET sweeps == p.playing /\ p.current_settings.pace # 0 /\ p.current_settings.shift # 0
      current_tick == (p.current_tick + 1) % p.current_settings.pace
      delta == p.wavelength \div Pow2(p.current_settings.shift)
      wavelength == IF p.current_settings.decrease THEN p.wavelength - delta
                    ELSE p.wavelength + delta
      p1 == IF p.triggered THEN [p EXCEPT !.triggered = FALSE]
            ELSE IF sweeps /\ current_tick = 0
                 THEN [p EXCEPT !.current_tick = 0, !.wavelength = wavelength]
            ELSE IF sweeps THEN [p EXCEPT !.current_tick = current_tick]
            ELSE p
  IN  [player |-> p1,
       play |-> p.triggered \/ (sweeps /\ current_tick = 0 /\ ~wavelength_overflowed(p1)),
       result |-> IF wavelength_overflowed(p1) THEN "WavelengthOverflowed" ELSE "Ok"]

\* PulsePlayer::trigger
PulsePlayer_trigger(p) ==
  [p EXCEPT !.triggered = TRUE, !.current_settings = p.new_settings, !.current_tick = 0,
            !.wavelength = p.new_settings.initial_wavelength, !.playing = TRUE]

\* PulsePlayer::set_pace
set_pace(p, new_pace) ==
  LET p1 == [p EXCEPT !.new_settings.pace = new_pace]
  IN  IF p.current_settings.pace = 0 /\ new_pace # 0
      THEN [p1 EXCEPT !.current_settings.pace = new_pace, !.triggered = TRUE]
      ELSE p1

\* CustomWavePlayer::tick; commands are the driver calls it makes, in order
CustomWavePlayer_tick(w) ==
  IF w.dac_enabled_changed /\ ~w.dac_enabled
  THEN [player |-> [w EXCEPT !.dac_enabled_changed = FALSE], commands |-> <<>>,
        result |-> "DacShutOff"]
  ELSE [player |-> [w EXCEPT !.dac_enabled_changed = FALSE, !.frequency_changed = FALSE,
                             !.gain_changed = FALSE, !.triggered = FALSE,
                             !.playing = (w.playing \/ w.triggered)],
        commands |-> (IF w.frequency_changed THEN <<"set_frequency">> ELSE <<>>)
                       \o (IF w.gain_changed THEN <<"set_gain">> ELSE <<>>)
                       \o (IF w.triggered THEN <<"play">> ELSE <<>>),
        result |-> "Ok"]

\* CustomWavePlayer::set_dac_enabled
set_dac_enabled(w, enabled) ==
  [w EXCEPT !.dac_enabled_changed = (w.dac_enabled_changed \/ enabled # w.dac_enabled),
            !.dac_enabled = enabled]

\* AudioControllerImpl::stop: the player's stop calls the driver's stop
audio_stop(s, channel) ==
  LET s1 == Emit(s, "stop", channel)
      l == [s1 EXCEPT !.a.length_timer[channel].counting = FALSE]
  IN  CASE channel \in {1, 2} ->
             [l EXCEPT !.a.pulse_player[channel].playing = FALSE,
                       !.a.gain_controller[channel].active = FALSE]
        [] channel = 3 -> [l EXCEPT !.a.ch3_custom_wave_player.playing = FALSE]
        [] channel = 4 -> [l EXCEPT !.a.gain_controller[4].active = FALSE,
                                    !.a.ch4_noise_player.playing = FALSE]

\* The length timer of one channel in AudioControllerImpl::length_timer_tick
LengthTimerOf(s, channel) ==
  LET r == LengthTimer_tick(s.a.length_timer[channel])
      s1 == [s EXCEPT !.a.length_timer[channel] = r.timer]
  IN  IF r.result = "Expired" THEN audio_stop(s1, channel) ELSE s1

\* AudioControllerImpl::length_timer_tick
length_timer_tick(s) ==
  LengthTimerOf(LengthTimerOf(LengthTimerOf(LengthTimerOf(s, 1), 2), 3), 4)

\* The gain controller of one channel in AudioControllerImpl::gain_controller_tick
GainControllerOf(s, channel) ==
  LET r == GainController_tick(s.a.gain_controller[channel])
      s1 == [s EXCEPT !.a.gain_controller[channel] = r.controller]
  IN  IF r.result = "DacShutOff" THEN audio_stop(s1, channel)
      ELSE Emit(s1, "set_gain", channel)

\* AudioControllerImpl::gain_controller_tick
gain_controller_tick(s) == GainControllerOf(GainControllerOf(GainControllerOf(s, 1), 2), 4)

\* A pulse player's tick and the stop that follows a wavelength overflow
\* (audio.rs:98-100 for channel 1, audio.rs:136-138 for channel 2)
PulsePlayerOf(s, channel) ==
  LET r == PulsePlayer_tick(s.a.pulse_player[channel])
      s1 == [s EXCEPT !.a.pulse_player[channel] = r.player]
      s2 == IF r.play THEN Emit(s1, "play", channel) ELSE s1
  IN  IF r.result = "WavelengthOverflowed" THEN audio_stop(s2, channel) ELSE s2

\* AudioControllerImpl::player_tick
player_tick(s) == PulsePlayerOf(s, 1)

RECURSIVE EmitAll(_, _, _)
EmitAll(s, commands, channel) ==
  IF commands = <<>> THEN s
  ELSE EmitAll(Emit(s, Head(commands), channel), Tail(commands), channel)

\* The custom wave player's tick in AudioControllerImpl::tick (audio.rs:139-141)
CustomWavePlayerOf(s) ==
  LET r == CustomWavePlayer_tick(s.a.ch3_custom_wave_player)
      s1 == EmitAll([s EXCEPT !.a.ch3_custom_wave_player = r.player], r.commands, 3)
  IN  IF r.result = "DacShutOff" THEN audio_stop(s1, 3) ELSE s1

\* NoisePlayer::tick as AudioControllerImpl::tick calls it (audio.rs:142)
NoisePlayerOf(s) ==
  IF s.a.ch4_noise_player.triggered
  THEN Emit([s EXCEPT !.a.ch4_noise_player.triggered = FALSE,
                      !.a.ch4_noise_player.playing = TRUE], "play", 4)
  ELSE s

\* AudioControllerImpl::set_stereo_gains: right and left of every channel
set_stereo_gains(s) ==
  [s EXCEPT !.cmds = @ \o <<<<"set_stereo_gain", 1>>, <<"set_stereo_gain", 1>>,
                            <<"set_stereo_gain", 2>>, <<"set_stereo_gain", 2>>,
                            <<"set_stereo_gain", 3>>, <<"set_stereo_gain", 3>>,
                            <<"set_stereo_gain", 4>>, <<"set_stereo_gain", 4>>>>]

\* AudioControllerImpl::disable
audio_disable(s) ==
  audio_stop(audio_stop(audio_stop(audio_stop([s EXCEPT !.a.enabled = FALSE], 1), 2), 3), 4)

\* The frame-sequencer step of AudioControllerImpl::tick (audio.rs:125-134)
FrameSequencerOf(s) ==
  LET div_apu == (s.a.div_apu + 1) % 65536
      s1 == [s EXCEPT !.a.div_apu = div_apu,
                      !.steps = {"step"} \cup (IF div_apu % 2 = 0 THEN {"length"} ELSE {})
                                  \cup (IF div_apu % 4 = 0 THEN {"player"} ELSE {})
                                  \cup (IF div_apu % 8 = 0 THEN {"gain"} ELSE {})]
      s2 == IF div_apu % 2 = 0 THEN length_timer_tick(s1) ELSE s1
      s3 == IF div_apu % 4 = 0 THEN player_tick(s2) ELSE s2
  IN  IF div_apu % 8 = 0 THEN gain_controller_tick(s3) ELSE s3

\* AudioControllerImpl::tick: divider is TimerController::get_divider
audio_tick(a, divider, double_speed_now) ==
  LET s0 == [a |-> [a EXCEPT !.disabled_request = FALSE, !.mixing_control_changed = FALSE],
             cmds |-> <<>>, steps |-> {}]
      s1 == IF a.disabled_request THEN audio_disable(s0) ELSE s0
      s2 == IF a.mixing_control_changed THEN set_stereo_gains(s1) ELSE s1
      new_timer_div == get_upper_byte(divider)
      divider_bit == IF double_speed_now THEN 5 ELSE 4
      s3 == IF get_bit(s2.a.previous_timer_div, divider_bit)
               /\ ~get_bit(new_timer_div, divider_bit)
            THEN FrameSequencerOf(s2) ELSE s2
      s4 == NoisePlayerOf(CustomWavePlayerOf(PulsePlayerOf(s3, 2)))
  IN  IF ~s2.a.enabled THEN s2
      ELSE [s4 EXCEPT !.a.previous_timer_div = new_timer_div]

\* AudioControllerImpl::trigger
audio_trigger(a, channel) ==
  LET l == [a EXCEPT !.length_timer[channel] = LengthTimer_trigger(@)]
  IN  CASE channel \in {1, 2} ->
             [l EXCEPT !.gain_controller[channel] = GainController_trigger(@),
                       !.pulse_player[channel] = PulsePlayer_trigger(@)]
        [] channel = 3 -> [l EXCEPT !.ch3_custom_wave_player.triggered = TRUE]
        [] channel = 4 -> [l EXCEPT !.gain_controller[4] = GainController_trigger(@),
                                    !.ch4_noise_player.triggered = TRUE]

\* The NRx2 write of channels 1, 2 and 4 (audio.rs:301-305, 327-331, 366-370)
WriteEnvelope(a, channel, value) ==
  [a EXCEPT !.gain_controller[channel].new_settings =
              [pace |-> value % 8, ascending |-> get_bit(value, 3),
               initial_value |-> value \div 16]]

\* The NRx4 write (audio.rs:309-315, 335-341, 355-361, 376-381)
WriteControl(a, channel, value) ==
  LET a1 == [a EXCEPT !.length_timer[channel].enabled = get_bit(value, 6)]
      a2 == CASE channel \in {1, 2} ->
                   [a1 EXCEPT !.pulse_player[channel].new_settings.initial_wavelength =
                                (@ % 256) + 256 * (value % 8)]
              [] channel = 3 ->
                   [a1 EXCEPT !.ch3_custom_wave_player.wavelength =
                                (@ % 256) + 256 * (value % 8),
                              !.ch3_custom_wave_player.frequency_changed = TRUE]
              [] channel = 4 -> a1
  IN  IF get_bit(value, 7) THEN audio_trigger(a2, channel) ELSE a2

\* The NR52 write enabling the APU only at the next tick
write_nr52_deferred_enable(a, value) ==
  IF ~get_bit(value, 7) THEN [a EXCEPT !.disabled_request = TRUE] ELSE a

\* The NR52 write (audio.rs:387-393)
write_nr52(a, value) ==
  IF ~get_bit(value, 7) THEN [a EXCEPT !.disabled_request = TRUE]
  ELSE [a EXCEPT !.enabled = TRUE]

\* Memory::write of AudioControllerImpl for the registers the programs use
audio_write(a, address, value) ==
  CASE address = NR10 ->
         [a EXCEPT !.pulse_player[1] =
                     set_pace([@ EXCEPT !.new_settings.shift = value % 8,
                                        !.new_settings.decrease = get_bit(value, 3)],
                              (value \div 16) % 8)]
    [] address = NR11 ->
         [a EXCEPT !.pulse_player[1].new_settings.duty_cycle = value \div 64,
                   !.length_timer[1].new_settings.initial_value = value % 64]
    [] address = NR12 -> WriteEnvelope(a, 1, value)
    [] address = NR14 -> WriteControl(a, 1, value)
    [] address = NR21 ->
         [a EXCEPT !.pulse_player[2].new_settings.duty_cycle = value \div 64,
                   !.length_timer[2].new_settings.initial_value = value % 64]
    [] address = NR22 -> WriteEnvelope(a, 2, value)
    [] address = NR24 -> WriteControl(a, 2, value)
    [] address = NR30 ->
         [a EXCEPT !.ch3_custom_wave_player = set_dac_enabled(@, get_bit(value, 7))]
    [] address = NR31 -> [a EXCEPT !.length_timer[3].new_settings.initial_value = value]
    [] address = NR32 ->
         [a EXCEPT !.ch3_custom_wave_player.gain = (value \div 32) % 4,
                   !.ch3_custom_wave_player.gain_changed = TRUE]
    [] address = NR34 -> WriteControl(a, 3, value)
    [] address = NR41 -> [a EXCEPT !.length_timer[4].new_settings.initial_value = value % 64]
    [] address = NR42 -> WriteEnvelope(a, 4, value)
    [] address = NR44 -> WriteControl(a, 4, value)
    [] address = NR51 -> [a EXCEPT !.mixing_control = value, !.mixing_control_changed = TRUE]
    [] address = NR52 -> write_nr52(a, value)

(***************************************************************************)
(* The APU inside the emulator tick.  The CPU's tick performs at most one  *)
(* memory write (internal/cpu/cpu.rs:242-243) and the APU's tick follows   *)
(* it in the same emulator tick (emulator.rs:273-277), so there is at most *)
(* one register write between two APU ticks.                               *)
(***************************************************************************)
MaxApuTicks == 4

MaxSeqTicks == 1030

MaxDivWrites == 1

SeqWriteWindow == 3

\* The register writes of the modelled programs: NR52 off and on, the
\* envelope of channel 1 and 4 on and off, the wave DAC on and off, and the
\* trigger of each channel
ApuWriteSamples ==
  {<<NR52, 0>>, <<NR52, 128>>, <<NR12, 240>>, <<NR12, 0>>, <<NR14, 128>>, <<NR24, 128>>,
   <<NR30, 128>>, <<NR30, 0>>, <<NR34, 128>>, <<NR42, 240>>, <<NR44, 128>>}

\* The channel whose NRx4 register is at the address, or 0
TriggerChannel(address) ==
  CASE address = NR14 -> 1
    [] address = NR24 -> 2
    [] address = NR34 -> 3
    [] address = NR44 -> 4
    [] OTHER -> 0

\* The channel's DAC is off: the envelope written to NRx2 and the one latched
\* by the last trigger both have volume 0 and direction down; NR30 bit 7 clear
DacOff(a, channel) ==
  IF channel = 3 THEN ~a.ch3_custom_wave_player.dac_enabled
  ELSE /\ dac_shut_off(a.gain_controller[channel])
       /\ a.gain_controller[channel].new_settings.initial_value = 0
       /\ ~a.gain_controller[channel].new_settings.ascending

\* A CPU write to an APU register
ApuWriteOf(address, value, max) ==
  /\ ~audio_obs.written
  /\ audio_obs.ticks < max
  /\ audio' = audio_write(audio, address, value)
  /\ audio_obs' =
       [audio_obs EXCEPT !.written = TRUE,
                         !.write = <<address, value>>,
                         !.was_enabled = audio.enabled,
                         !.silenced = IF get_bit(value, 7) THEN @ \ {TriggerChannel(address)}
                                      ELSE @,
                         !.switched_on = IF address = NR52 THEN get_bit(value, 7) ELSE @]
  /\ last_op' = "audio_write"
  /\ requested' = <<>>
  /\ UNCHANGED <<ic, cpu, mem, key1, dma, timer, lcd, buttons, oam, rom, panicked, cpu_obs,
                 dma_obs, timer_obs, lcd_obs, button_obs, rom_obs>>

\* The APU's and the timer's tick of an emulator tick (emulator.rs:277-278)
ApuTickOf(max) ==
  /\ audio_obs.ticks < max
  /\ LET ds == double_speed(key1)
         r == audio_tick(audio, timer.divider, ds)
         t == timer_tick(timer)
     IN  /\ audio' = r.a
         /\ timer' = t.timer
         /\ ic' = request_all(ic, t.requests)
         /\ requested' = t.requests
         /\ audio_obs' =
              [audio_obs EXCEPT !.ticks = @ + 1,
                                !.written = FALSE,
                                !.commands = r.cmds,
                                !.steps = r.steps,
                                !.advanced = (r.a.div_apu # audio.div_apu),
                                !.enabled = r.a.enabled,
                                !.was_enabled = audio.enabled,
                                !.disable_pending = audio.disabled_request,
                                !.double_speed = ds,
                                !.div = get_upper_byte(timer.divider),
                                !.previous_div = audio_obs.div,
                                !.silenced_before = audio_obs.silenced,
                                !.silenced = @ \cup {ch \in 1..4 : DacOff(r.a, ch)}]
  /\ last_op' = "audio_tick"
  /\ UNCHANGED <<cpu, mem, key1, dma, lcd, buttons, oam, rom, panicked, cpu_obs, dma_obs,
                 timer_obs, lcd_obs, button_obs, rom_obs>>

ApuWrite(address, value) == ApuWriteOf(address, value, MaxApuTicks)

ApuTick == ApuTickOf(MaxApuTicks)

NextApu ==
  \/ \E w \in ApuWriteSamples : ApuWrite(w[1], w[2])
  \/ ApuTick

SpecApu == Init /\ [][NextApu]_vars

\* The programs of the long runs write only in the first ticks after the
\* divider's low twelve bits wrap
InWriteWindow == (timer.divider \div 4) % 1024 < SeqWriteWindow

SeqWriteNR52(value) == InWriteWindow /\ ApuWriteOf(NR52, value, MaxSeqTicks)

\* A CPU write to DIV between two emulator ticks
SeqWriteDIV ==
  /\ InWriteWindow
  /\ ~audio_obs.written
  /\ audio_obs.ticks < MaxSeqTicks
  /\ timer_obs.ticks < MaxDivWrites
  /\ timer' = timer_write(timer, 65284, 0)
  /\ timer_obs' = [timer_obs EXCEPT !.ticks = @ + 1]
  /\ audio_obs' = [audio_obs EXCEPT !.written = TRUE, !.write = <<65284, 0>>]
  /\ last_op' = "write_div"
  /\ requested' = <<>>
  /\ UNCHANGED <<ic, cpu, mem, key1, dma, lcd, buttons, oam, audio, rom, panicked,
                 cpu_obs, dma_obs, lcd_obs, button_obs, rom_obs>>

SeqTick == ApuTickOf(MaxSeqTicks)

NextSeq ==
  \/ \E value \in {0, 128} : SeqWriteNR52(value)
  \/ SeqWriteDIV
  \/ SeqTick

SpecSeq == Init /\ [][NextSeq]_vars

\* The driver calls of the last APU tick that address the channel
CommandsFor(channel) ==
  {audio_obs.commands[i][1] : i \in {j \in DOMAIN audio_obs.commands :
                                       audio_obs.commands[j][2] = channel}}

\* The selected bit of the divider's upper byte was 1 at the previous APU tick
\* and is 0 at the last one
FallingEdge ==
  LET divider_bit == IF audio_obs.double_speed THEN 5 ELSE 4
  IN  get_bit(audio_obs.previous_div, divider_bit) /\ ~get_bit(audio_obs.div, divider_bit)

\* C27: the frame-sequencer counter advances in an APU tick if and only if the
\* APU is enabled and bit 4 (bit 5 in double speed) of the divider's upper byte
\* was 1 at the previous tick and is 0 at this tick; on such a step the length
\* timers are ticked iff the new counter is even, the pulse sweep iff it is a
\* multiple of 4, and the envelopes iff it is a multiple of 8.
C27_FrameSequencerStepsOnFallingEdge ==
  last_op = "audio_tick" =>
    /\ audio_obs.advanced <=> (audio_obs.enabled /\ FallingEdge)
    /\ audio_obs.advanced =>
         /\ ("length" \in audio_obs.steps) <=> (audio.div_apu % 2 = 0)
         /\ ("player" \in audio_obs.steps) <=> (audio.div_apu % 4 = 0)
         /\ ("gain" \in audio_obs.steps) <=> (audio.div_apu % 8 = 0)
    /\ ~audio_obs.advanced => audio_obs.steps = {}

\* C28: once a channel's DAC is off, no APU tick that follows issues stop,
\* set_gain, set_frequency or play for that channel until a write to NRx4 with
\* bit 7 set triggers it; the tick that carries out an NR52 switch-off is left
\* out of the statement.
C28_DacOffChannelsAreSilent ==
  (last_op = "audio_tick" /\ ~audio_obs.disable_pending) =>
    \A channel \in audio_obs.silenced_before :
      CommandsFor(channel) \cap {"stop", "set_gain", "set_frequency", "play"} = {}

\* C29: a write to NR52 with bit 7 clear leaves the enabled flag as it was
\* until the next APU tick, and that tick stops all four channels and
\* disables the APU; a write with bit 7 set enables the APU at once, and it
\* stays enabled for as long as no write with bit 7 clear has followed.
C29_Nr52OffDeferredOnImmediate ==
  /\ audio.disabled_request =>
       /\ last_op = "audio_write"
       /\ audio.enabled = audio_obs.was_enabled
  /\ (last_op = "audio_write" /\ audio_obs.write[1] = NR52
        /\ ~get_bit(audio_obs.write[2], 7)) => audio.disabled_request
  /\ (last_op = "audio_tick" /\ audio_obs.disable_pending) =>
       /\ ~audio.enabled
       /\ \A channel \in 1..4 : "stop" \in CommandsFor(channel)
       /\ \A channel \in {1, 2} : ~audio.pulse_player[channel].playing
       /\ ~audio.ch3_custom_wave_player.playing
       /\ ~audio.ch4_noise_player.playing
  /\ audio_obs.switched_on => audio.enabled

\* An enabled APU with a playing channel has just been switched off by the tick
\* that follows an NR52 write with bit 7 clear
C29_Witness ==
  /\ last_op = "audio_tick"
  /\ audio_obs.disable_pending
  /\ audio_obs.was_enabled
  /\ ~audio.enabled
  /\ \A channel \in 1..4 : "stop" \in CommandsFor(channel)

(***************************************************************************)
(* The MBC3 cartridge and its real-time clock (internal/memory/mbc3.rs).   *)
(* The ROM is left out; a read of the RTC fills the clock's empty cache    *)
(* with the value it returns, which no later read or write can tell apart  *)
(* from the empty cache, so reads are kept free of effects.                *)
(***************************************************************************)
SECONDS_NANOSECONDS == 1000000000

MAX_DAYS_IN_SECONDS == 512 * 24 * 3600

\* FormattedRTC::from_rtc
from_rtc(r) ==
  LET days == (r.seconds \div 86400) % 65536
      in_day == r.seconds % 86400
  IN  [nanoseconds |-> r.nanoseconds,
       seconds |-> in_day % 60,
       minutes |-> (in_day % 3600) \div 60,
       hours |-> in_day \div 3600,
       days_low |-> get_lower_byte(days),
       days_high |-> (get_upper_byte(days) % 2) + (IF r.halted THEN 64 ELSE 0)
                       + (IF r.days_carry THEN 128 ELSE 0)]

\* RTC::get_formatted_rtc
get_formatted_rtc(r) == IF r.cached THEN r.formatted_rtc ELSE from_rtc(r)

\* RTC::update_from_formatted_rtc
update_from_formatted_rtc(r, f) ==
  [seconds |-> f.seconds + 60 * f.minutes + 3600 * f.hours
                 + 86400 * (f.days_low + (IF get_bit(f.days_high, 0) THEN 256 ELSE 0)),
   nanoseconds |-> f.nanoseconds,
   days_carry |-> get_bit(f.days_high, 7),
   halted |-> get_bit(f.days_high, 6),
   cached |-> TRUE,
   formatted_rtc |-> f]

\* RTC::set_seconds, set_minutes, set_hours, set_days_low and set_days_high
rtc_set(r, field, value) ==
  update_from_formatted_rtc(r, [get_formatted_rtc(r) EXCEPT ![field] = value])

\* RTC::tick wrapping at 512 days without setting the day carry
rtc_tick_without_carry(r, nanoseconds) ==
  IF r.halted THEN r
  ELSE LET n == r.nanoseconds + nanoseconds
           s == r.seconds + n \div SECONDS_NANOSECONDS
       IN  [r EXCEPT !.seconds = s % MAX_DAYS_IN_SECONDS,
                     !.nanoseconds = n % SECONDS_NANOSECONDS,
                     !.cached = FALSE,
                     !.formatted_rtc = FormattedRTC_zero]

\* RTC::tick
rtc_tick(r, nanoseconds) ==
  IF r.halted THEN r
  ELSE LET n == r.nanoseconds + nanoseconds
           s == r.seconds + n \div SECONDS_NANOSECONDS
       IN  [r EXCEPT !.seconds = s % MAX_DAYS_IN_SECONDS,
                     !.nanoseconds = n % SECONDS_NANOSECONDS,
                     !.days_carry = (@ \/ s >= MAX_DAYS_IN_SECONDS),
                     !.cached = FALSE,
                     !.formatted_rtc = FormattedRTC_zero]

\* The register of the RTC that a RAM bank number selects
RtcField(bank) ==
  CASE bank = 8 -> "seconds"
    [] bank = 9 -> "minutes"
    [] bank = 10 -> "hours"
    [] bank = 11 -> "days_low"
    [] bank = 12 -> "days_high"

\* MBC3::latch_counter_data
latch_counter_data(m) == [m EXCEPT !.rtc_registers = m.rtc]

\* The write to 0x6000..=0x7FFF latching whenever bit 0 of the value is 1
write_latch_on_level(m, value) ==
  LET new_value == value % 2 = 1
      m1 == IF new_value THEN latch_counter_data(m) ELSE m
  IN  [m1 EXCEPT !.clock_counter_data_latch = new_value]

\* The write to 0x6000..=0x7FFF (mbc3.rs:216-222)
write_latch(m, value) ==
  LET new_value == value % 2 = 1
      m1 == IF new_value /\ ~m.clock_counter_data_latch THEN latch_counter_data(m) ELSE m
  IN  [m1 EXCEPT !.clock_counter_data_latch = new_value]

\* Memory::read of MBC3 for 0xA000..=0xBFFF
mbc3_read(m, address) ==
  IF m.ram_bank_address <= 7
  THEN LET address_in_ram == (address % 8192) + 8192 * m.ram_bank_address
       IN  IF address_in_ram \in DOMAIN m.ram THEN m.ram[address_in_ram] ELSE 0
  ELSE get_formatted_rtc(m.rtc_registers)[RtcField(m.ram_bank_address)]

\* Memory::write of MBC3
mbc3_write(m, address, value) ==
  CASE address \in 0..8191 -> [rom |-> [m EXCEPT !.ram_enabled = (value % 16 = 10)],
                               panicked |-> FALSE]
    [] address \in 8192..16383 ->
         [rom |-> [m EXCEPT !.rom_bank_address = IF value = 0 THEN 1 ELSE value],
          panicked |-> FALSE]
    [] address \in 16384..24575 /\ value <= 12 ->
         [rom |-> [m EXCEPT !.ram_bank_address = value % 16], panicked |-> FALSE]
    [] address \in 24576..32767 -> [rom |-> write_latch(m, value), panicked |-> FALSE]
    [] address \in 40960..49151 ->
         [rom |-> IF ~m.ram_enabled THEN m
                  ELSE IF m.ram_bank_address <= 7
                  THEN [m EXCEPT !.ram =
                          [a \in DOMAIN m.ram \cup {(address % 8192) + 8192 * m.ram_bank_address}
                             |-> IF a = (address % 8192) + 8192 * m.ram_bank_address
                                 THEN value ELSE m.ram[a]]]
                  ELSE [m EXCEPT !.rtc_registers =
                                   rtc_set(@, RtcField(m.ram_bank_address), value),
                                 !.rtc = rtc_set(@, RtcField(m.ram_bank_address), value)],
          panicked |-> (m.ram_enabled /\ m.ram_bank_address > 12)]
    [] OTHER -> [rom |-> m, panicked |-> TRUE]

\* MBC::tick of MBC3 for a run of emulator ticks with no cartridge write in
\* between: RTC::tick adds what it is given, so the run leaves the clock where
\* one tick with the sum of the passed nanoseconds does
mbc3_tick(m, double_speed_now, ticks) ==
  [m EXCEPT !.rtc = rtc_tick(@, ticks * (IF double_speed_now THEN 500 ELSE 1000))]

MaxRtcOps == 5

\* The cartridge writes of the modelled programs: RAM enable, ROM bank 0 and
\* 128, RAM bank 0 and the RTC registers for seconds and minutes, an invalid
\* bank, the latch register with bit 0 clear and set, and a byte for the
\* selected bank
MbcWriteSamples ==
  {<<0, 10>>, <<8192, 0>>, <<8192, 128>>, <<16384, 0>>, <<16384, 8>>, <<16384, 9>>, <<16384, 13>>, <<24576, 0>>,
   <<24576, 1>>, <<40960, 59>>}

\* One emulator tick, and the million ticks that make a second in normal speed
TickRunSamples == {1, 1000000}

\* A CPU write to the cartridge
MbcWrite(address, value) ==
  /\ ~panicked
  /\ rom_obs.ops < MaxRtcOps
  /\ LET r == mbc3_write(rom, address, value)
         latch_write == address \in 24576..32767
     IN  /\ rom' = r.rom
         /\ panicked' = r.panicked
         /\ rom_obs' =
              [ops |-> rom_obs.ops + 1, before |-> rom, address |-> address, value |-> value,
               previous_bit |-> IF latch_write THEN rom_obs.last_bit
                                ELSE rom_obs.previous_bit,
               last_bit |-> IF latch_write THEN value % 2 ELSE rom_obs.last_bit,
               latches |-> IF latch_write /\ value % 2 = 1 /\ rom_obs.last_bit = 0
                           THEN rom_obs.latches + 1 ELSE rom_obs.latches,
               written |-> rom_obs.written, seconds_run |-> rom_obs.seconds_run]
  /\ last_op' = "mbc_write"
  /\ requested' = <<>>
  /\ UNCHANGED <<ic, cpu, mem, key1, dma, timer, lcd, buttons, oam, audio, cpu_obs, dma_obs,
                 timer_obs, lcd_obs, button_obs, audio_obs>>

\* The cartridge's tick of an emulator tick (emulator.rs:274), or of a run of them
MbcTick(ticks) ==
  /\ ~panicked
  /\ rom_obs.ops < MaxRtcOps
  /\ rom' = mbc3_tick(rom, double_speed(key1), ticks)
  /\ rom_obs' = [rom_obs EXCEPT !.ops = @ + 1, !.before = rom]
  /\ last_op' = "mbc_tick"
  /\ requested' = <<>>
  /\ UNCHANGED <<ic, cpu, mem, key1, dma, timer, lcd, buttons, oam, audio, panicked, cpu_obs,
                 dma_obs, timer_obs, lcd_obs, button_obs, audio_obs>>

NextRtc ==
  \/ \E w \in MbcWriteSamples : MbcWrite(w[1], w[2])
  \/ \E ticks \in TickRunSamples : MbcTick(ticks)

SpecRtc == Init /\ [][NextRtc]_vars

\* The bytes read from 0xA000 with RAM bank 0x8..0xC selected
RtcReadings(m) == [bank \in 8..12 |-> mbc3_read([m EXCEPT !.ram_bank_address = bank], 40960)]

\* The live clock's seconds, minutes, hours and day bytes
LiveClock(m) == [bank \in 8..12 |-> get_formatted_rtc(m.rtc)[RtcField(bank)]]

\* The last operation wrote to 0x6000..=0x7FFF with bit 0 set, bit 0 of the
\* previous such write (0 when there was none) being clear
LatchEvent ==
  /\ last_op = "mbc_write"
  /\ rom_obs.address \in 24576..32767
  /\ rom_obs.value % 2 = 1
  /\ rom_obs.previous_bit = 0

\* C30: the RTC registers read through banks 0x8..0xC take the values of the
\* live clock on a write to 0x6000..=0x7FFF with bit 0 set that follows one
\* with bit 0 clear (or none); every other write below 0xA000 and every tick
\* of the live clock leaves the values read as they were.
C30_LatchOnRisingEdgeOnly ==
  /\ LatchEvent => RtcReadings(rom) = LiveClock(rom_obs.before)
  /\ (last_op = "mbc_write" /\ rom_obs.address < 40960 /\ ~LatchEvent) =>
       RtcReadings(rom) = RtcReadings(rom_obs.before)
  /\ last_op = "mbc_tick" => RtcReadings(rom) = RtcReadings(rom_obs.before)

\* A second latch event has replaced the first snapshot by a different one
C30_Witness ==
  /\ LatchEvent
  /\ rom_obs.latches >= 2
  /\ RtcReadings(rom) # RtcReadings(rom_obs.before)

\* C32: after any sequence of cartridge writes the ROM bank mapped at
\* 0x4000..=0x7FFF is in 1..127.
C32_RomBankIn1To127 == rom.rom_bank_address \in 1..127

\* C39: every CPU write to 0x0000..=0x7FFF on the cartridge is accepted
\* without terminating the emulator, whatever the value.
C39_LowWritesNeverPanic ==
  (last_op = "mbc_write" /\ rom_obs.address \in 0..32767) => ~panicked

(***************************************************************************)
(* The RTC wrap at 512 days: the program of the test tick_rtc              *)
(* (mbc3.rs:367-413) at either speed: it sets the registers in any order,  *)
(* lets seconds pass, and latches once the registers are set.              *)
(***************************************************************************)
MaxWrapTicks == 2

MaxWrapSeconds == 2

\* The values the program writes to the RTC registers selected by banks 0x8..0xC
WrapSet == [bank \in 8..12 |-> CASE bank = 8 -> 59
                                 [] bank = 9 -> 59
                                 [] bank = 10 -> 23
                                 [] bank = 11 -> 255
                                 [] bank = 12 -> 1]

\* RAM enable and disable, the RTC bank selects, and the latch register with
\* bit 0 clear and set
WrapWriteSamples ==
  {<<0, 10>>, <<0, 11>>, <<24576, 0>>, <<24576, 1>>} \cup {<<16384, bank>> : bank \in 8..12}

\* A CPU write to the cartridge; the history keeps the values last written to
\* the RTC registers
WrapWriteOf(address, value) ==
  /\ ~panicked
  /\ LET r == mbc3_write(rom, address, value)
         latch_write == address \in 24576..32767
         rtc_write == address \in 40960..49151 /\ rom.ram_enabled
     IN  /\ rom' = r.rom
         /\ panicked' = r.panicked
         /\ rom_obs' =
              [ops |-> rom_obs.ops, before |-> rom_obs.before, address |-> address,
               value |-> value,
               previous_bit |-> IF latch_write THEN rom_obs.last_bit
                                ELSE rom_obs.previous_bit,
               last_bit |-> IF latch_write THEN value % 2 ELSE rom_obs.last_bit,
               latches |-> rom_obs.latches,
               written |-> IF ~rtc_write THEN rom_obs.written
                           ELSE [bank \in 8..12 |->
                                   IF bank = rom.ram_bank_address THEN value
                                   ELSE rom_obs.written[bank]],
               seconds_run |-> rom_obs.seconds_run]
  /\ last_op' = "mbc_write"
  /\ requested' = <<>>
  /\ UNCHANGED <<ic, cpu, mem, key1, dma, timer, lcd, buttons, oam, audio, cpu_obs, dma_obs,
                 timer_obs, lcd_obs, button_obs, audio_obs>>

\* The program's five values were the last ones written to the RTC registers,
\* all of them before the first second ran
RegistersSet == rom_obs.written = WrapSet

\* A write below 0xA000; the program latches once it has set the registers
WrapWrite(address, value) ==
  /\ address \in 24576..32767 => RegistersSet
  /\ WrapWriteOf(address, value)

\* The write of the program's value to the selected RTC register
WrapSetRegister ==
  /\ rom_obs.seconds_run = 0
  /\ rom.ram_bank_address \in 8..12
  /\ WrapWriteOf(40960, WrapSet[rom.ram_bank_address])

\* The run of emulator ticks that makes one second at the current speed, with
\* no cartridge write in between
WrapSecond ==
  /\ ~panicked
  /\ rom_obs.ops < MaxWrapTicks
  /\ rom_obs.seconds_run < MaxWrapSeconds
  /\ rom' = mbc3_tick(rom, double_speed(key1), IF double_speed(key1) THEN 2000000 ELSE 1000000)
  /\ rom_obs' = [rom_obs EXCEPT !.ops = @ + 1, !.seconds_run = @ + 1]
  /\ last_op' = "mbc_tick"
  /\ requested' = <<>>
  /\ UNCHANGED <<ic, cpu, mem, key1, dma, timer, lcd, buttons, oam, audio, panicked, cpu_obs,
                 dma_obs, timer_obs, lcd_obs, button_obs, audio_obs>>

\* One emulator tick of the cartridge (emulator.rs:274)
WrapTick ==
  /\ ~panicked
  /\ rom_obs.ops < MaxWrapTicks
  /\ rom' = mbc3_tick(rom, double_speed(key1), 1)
  /\ rom_obs' = [rom_obs EXCEPT !.ops = @ + 1]
  /\ last_op' = "mbc_tick"
  /\ requested' = <<>>
  /\ UNCHANGED <<ic, cpu, mem, key1, dma, timer, lcd, buttons, oam, audio, panicked, cpu_obs,
                 dma_obs, timer_obs, lcd_obs, button_obs, audio_obs>>

\* The CPU arms the speed switch by a write to KEY1
WrapWriteKEY1 ==
  /\ ~panicked
  /\ ~get_bit(key1, 0)
  /\ key1' = speed_write(key1, 1)
  /\ last_op' = "write_key1"
  /\ requested' = <<>>
  /\ UNCHANGED <<ic, cpu, mem, dma, timer, lcd, buttons, oam, audio, rom, panicked, cpu_obs,
                 dma_obs, timer_obs, lcd_obs, button_obs, audio_obs, rom_obs>>

\* An emulator tick in which the CPU executes STOP with KEY1 armed: the
\* cartridge ticks at the speed read when the tick began (emulator.rs:253),
\* and the speed controller switches the speed and resumes the CPU
WrapStop ==
  /\ ~panicked
  /\ rom_obs.ops < MaxWrapTicks
  /\ get_bit(key1, 0)
  /\ key1' = speed_tick(key1, [cpu EXCEPT !.stopped = TRUE]).key1
  /\ rom' = mbc3_tick(rom, double_speed(key1), 1)
  /\ rom_obs' = [rom_obs EXCEPT !.ops = @ + 1]
  /\ last_op' = "stop"
  /\ requested' = <<>>
  /\ UNCHANGED <<ic, cpu, mem, dma, timer, lcd, buttons, oam, audio, panicked, cpu_obs,
                 dma_obs, timer_obs, lcd_obs, button_obs, audio_obs>>

NextWrap ==
  \/ \E w \in WrapWriteSamples : WrapWrite(w[1], w[2])
  \/ WrapSetRegister
  \/ WrapSecond
  \/ WrapTick
  \/ WrapWriteKEY1
  \/ WrapStop

SpecWrap == Init /\ [][NextWrap]_vars

\* C31: when the RTC registers were set to S=59, M=59, H=23, DL=0xFF, DH=0x01
\* and the clock has then run for one second (1,000,000 ticks, 2,000,000 in
\* double speed), a latch makes the registers read 0, 0, 0, 0 and 0x80; after
\* a further second the carry bit is still set and the seconds read 1.
C31_RtcWrapsAt512Days ==
  (LatchEvent /\ RegistersSet /\ rom_obs.seconds_run >= 1) =>
    RtcReadings(rom) = [bank \in 8..12 |-> CASE bank = 8 -> rom_obs.seconds_run - 1
                                             [] bank = 12 -> 128
                                             [] OTHER -> 0]

\* The registers were set and latched after one second in double speed
C31_Witness ==
  /\ LatchEvent
  /\ RegistersSet
  /\ rom_obs.seconds_run = 1
  /\ double_speed(key1)
  /\ RtcReadings(rom)[12] = 128

(***************************************************************************)
(* The DMA controller under a program that starts, cancels and replaces    *)
(* transfers: writes to FF53, FF55 and FF46 at any time the program runs,  *)
(* and DMA ticks in any PPU mode, in normal speed.                         *)
(***************************************************************************)
\* A general-purpose transfer or a cancellation request, and an H-Blank
\* transfer, of 16 bytes
CancelHDMA5Samples == {0, 128}

\* A write to FF55; the history keeps whether FF55 was written with bit 7
\* clear since the H-Blank transfer in progress was started
CancelWriteHDMA5(value) ==
  /\ ProgramRuns
  /\ dma' = dma_write(dma, 65365, value)
  /\ dma_obs' = [dma_obs EXCEPT !.cancel_written =
                   IF dma.active_transfer.transfer_type = "Inactive" THEN FALSE
                   ELSE IF dma.active_transfer.transfer_type = "HBlank" /\ ~get_bit(value, 7)
                   THEN TRUE
                   ELSE @]
  /\ last_op' = "write_hdma5"
  /\ UNCHANGED peripherals
  /\ requested' = <<>>
  /\ UNCHANGED <<ic, cpu, mem, key1, timer, lcd, panicked, cpu_obs, timer_obs, lcd_obs>>

NextCancel ==
  \/ \E v \in HDMA3Samples : WriteHDMA3(v)
  \/ \E v \in CancelHDMA5Samples : CancelWriteHDMA5(v)
  \/ \E v \in DMASamples : WriteDMA(v)
  \/ \E m \in DmaModeSamples : DmaTick(m)

SpecCancel == Init /\ [][NextCancel]_vars

\* The last DMA tick cancelled an H-Blank transfer
HBlankCancelled ==
  /\ AfterDmaTick
  /\ dma_obs.transfer_type = "HBlank"
  /\ dma.active_transfer.transfer_type = "Inactive"
  /\ dma.active_transfer.bytes_transferred < dma.active_transfer.bytes_to_transfer

\* C35: an H-Blank transfer is cancelled only when FF55 was written with bit 7
\* clear after that transfer was started: a request made for an earlier
\* transfer, which has completed, was cancelled or was replaced by a legacy
\* transfer, cancels no later one.
C35_NoStaleCancellation == HBlankCancelled => dma_obs.cancel_written

(***************************************************************************)
(* The DMA controller under a program that sets the destination, writes    *)
(* FF55 and FF46 MaxStallWrites times at any time and switches to double   *)
(* speed, the emulator ticking for ever in any PPU mode.                   *)
(***************************************************************************)
MaxStallWrites == 2

\* A general-purpose and an H-Blank transfer of 16 bytes, and a legacy
\* transfer from work RAM
StallWriteSamples == {<<65365, 0>>, <<65365, 128>>, <<65350, 192>>}

\* A write to FF55 or FF46
StallWrite(address, value) ==
  /\ ProgramRuns
  /\ dma_obs.writes < MaxStallWrites
  /\ dma' = dma_write(dma, address, value)
  /\ dma_obs' = [dma_obs EXCEPT !.writes = @ + 1]
  /\ last_op' = "write_dma_register"
  /\ UNCHANGED peripherals
  /\ requested' = <<>>
  /\ UNCHANGED <<ic, cpu, mem, key1, timer, lcd, panicked, cpu_obs, timer_obs, lcd_obs>>

\* The one switch to double speed is armed
StallWriteKEY1 ==
  /\ key1 = 0
  /\ WriteKEY1(1)

\* Only the H-Blank handler reads the PPU mode (dma.rs:136), which is left
\* at mode 3 for the ticks of the other transfers
StallMode(m) == dma.active_transfer.transfer_type = "HBlank" \/ m = "Mode3"

\* An emulator tick
StallDmaTick(m) ==
  /\ StallMode(m)
  /\ DmaTick(m)

\* The emulator tick of the STOP that switches the speed
StallStop(m) ==
  /\ StallMode(m)
  /\ StopInstruction(m)

StallTick == \E m \in DmaModeSamples : StallDmaTick(m) \/ StallStop(m)

NextStall ==
  \/ \E v \in HDMA3Samples : WriteHDMA3(v)
  \/ \E w \in StallWriteSamples : StallWrite(w[1], w[2])
  \/ StallWriteKEY1
  \/ \E m \in DmaModeSamples : StallDmaTick(m)
  \/ \E m \in DmaModeSamples : StallStop(m)

SpecStall == Init /\ [][NextStall]_vars

\* The emulator ticks for ever (emulator.rs:252-287)
SpecStallFair == SpecStall /\ WF_vars(StallTick)

\* The last operation wrote a register
RegisterWritten == last_op \in {"write_hdma3", "write_dma_register", "write_key1"}

\* C36: whenever the CPU is disabled by the DMA controller it is enabled again
\* after finitely many ticks of the running emulator unless a register is
\* written first, whatever the PPU mode in each tick (a switched-off LCD keeps
\* one mode for ever) and whatever transfer is active, a legacy transfer
\* started while the CPU was disabled included.
C36_DisabledCpuIsEnabledAgain ==
  (~cpu.enabled /\ ~panicked) ~> (cpu.enabled \/ RegisterWritten \/ panicked)

\* The tick after the last byte of a legacy transfer enables a CPU that was
\* disabled throughout the transfer
C36_Witness ==
  /\ AfterDmaTick
  /\ cpu.enabled
  /\ ~dma_obs.cpu_enabled
  /\ dma_obs.transfer_type = "Inactive"
  /\ dma.active_transfer.bytes_transferred = LegacyLength

(***************************************************************************)
(* The stopped CPU and the buttons. The program at 0x0100 is               *)
(*   LD A,n ; LDH (0xFF),A ; EI ; STOP                                     *)
(* with n = 0x10 (IE enables ButtonPressed) or 0x14 (and TimerOverflow);   *)
(* it selects the action buttons through P1 before it stops. Button A is   *)
(* pressed and released at any time, and the timer requests TimerOverflow  *)
(* in any tick.                                                            *)
(***************************************************************************)
WakeProgramEnd == 256 + 6

\* The bytes of the programs at an address
WakeRom(address) ==
  CASE address = 256 -> {62}
    [] address = 257 -> {16, 20}
    [] address = 258 -> {224}
    [] address = 259 -> {255}
    [] address = 260 -> {251}
    [] address = 261 -> {16}
    [] OTHER -> {0}

WakeFetchChoices == {<<v, w>> : v \in WakeRom(cpu.pc), w \in WakeRom(cpu.pc + 1)}

\* What the timer requests in one tick
WakeRequestSamples == {<<>>, <<"TimerOverflow">>}

\* Emulator::tick: cpu.tick, speed_controller.tick, button_controller.tick
\* and the request of the timer's tick
WakeTickOf(reqs) ==
  /\ ~panicked
  /\ DecodesNext => cpu.pc \in 256..(WakeProgramEnd - 1)
  /\ \E fetch \in WakeFetchChoices :
     \E b \in {cpu_tick([cpu |-> cpu, ic |-> ic, mem |-> mem, key1 |-> key1, dma |-> dma,
                           timer |-> timer, lcd |-> lcd, fetch |-> fetch,
                           obs |-> StartObs])} :
       LET r == speed_tick(b.key1, b.cpu)
           t == button_tick(buttons)
       IN  /\ cpu' = r.cpu
           /\ key1' = r.key1
           /\ buttons' = t.c
           /\ ic' = request_all(b.ic, t.requests \o reqs)
           /\ mem' = b.mem
           /\ dma' = b.dma
           /\ timer' = b.timer
           /\ lcd' = b.lcd
           /\ cpu_obs' = b.obs
           /\ requested' = t.requests \o reqs
  /\ last_op' = "cpu_tick"
  /\ UNCHANGED <<button_obs, oam, audio, audio_obs, rom, rom_obs>>
  /\ UNCHANGED <<panicked, dma_obs, timer_obs, lcd_obs>>

WakeTick == \E reqs \in WakeRequestSamples : WakeTickOf(reqs)

\* The running program selects the action buttons
WakeSelect ==
  /\ ~cpu.stopped
  /\ WriteP1(16)

NextWake ==
  \/ WakeSelect
  \/ PressButton("A")
  \/ ReleaseButton("A")
  \/ WakeTick

SpecWake == Init /\ [][NextWake]_vars

\* A tick of the emulator while the CPU is stopped
WakeStoppedTick == cpu.stopped /\ WakeTick

\* The host calls Emulator::tick for ever (emulator.rs:252-287), so a stopped
\* CPU is ticked again and again
SpecWakeFair == SpecWake /\ WF_vars(WakeStoppedTick)

\* A button of an enabled group has just been pressed (the press requested
\* ButtonPressed) while the CPU is stopped with no speed switch armed, IME set
\* and IE bit 4 set
PressedWhileStopped ==
  /\ last_op = "press_button"
  /\ requested = <<"ButtonPressed">>
  /\ cpu.stopped
  /\ ~get_bit(key1, 0)
  /\ ic.interrupt_master_enable
  /\ get_bit(ic.interrupt_enable, 4)

\* The CPU has left the stopped state and services ButtonPressed
WokenByButton == ~cpu.stopped /\ cpu_obs.servicing = "ButtonPressed"

\* C38: when a button of an enabled group is pressed while the CPU is stopped
\* with no speed switch armed, IME set and IE bit 4 set, the CPU eventually
\* leaves the stopped state and services ButtonPressed, whatever else is
\* pending in IF.
C38_ButtonWakesStoppedCpu == PressedWhileStopped ~> WokenByButton
====
